---- MODULE Spec2Model ----
(***************************************************************************)
(* Multi-world registry (RapierContext) and simulation stepper             *)
(* (RapierWorld::step_simulation) of bevy_rapier, with the interpolation   *)
(* snapshot taken by the stepper and the blend used by writeback.          *)
(*                                                                         *)
(* Times are integers counted in ticks.  Every timestep, max_dt and        *)
(* elapsed time is a multiple of TimeUnit, the least common multiple of    *)
(* all sub-step counts, so that dt / substeps is exact; the f32 rounding   *)
(* of the source is not modelled.  Poses are planar: a translation with    *)
(* integer coordinates and a rotation about Z by quarter turns.            *)
(***************************************************************************)
EXTENDS Integers, Sequences, FiniteSets, TLC

VARIABLES
    worlds,          \* RapierContext::worlds : WorldId -> RapierWorld
    next_world_id,   \* RapierContext::next_world_id
    timestep_mode,   \* the configured TimestepMode, set when the plugin is set up
    diff,            \* SimulationToRenderTime::diff
    interpolation,   \* entity -> (RapierRigidBodyHandle, TransformInterpolation)
    event_stream,    \* the host's event streams: what the EventWriters were sent, and how
                     \* many collision events update_colliding_entities has read
    frames,          \* the number of host updates run so far
    scene,           \* the host's entities: entity -> its components
    removed,         \* RemovedComponents of the handle components, not read yet
    stage,           \* the system set of the schedule that runs next
    authored,        \* the scene as it was spawned
    returned,        \* history: the ids returned by add_world, in call order
    last             \* history: the last operation, its argument and result

vars == <<worlds, next_world_id, timestep_mode, diff, interpolation, event_stream, frames,
          scene, removed, stage, authored, returned, last>>

-----------------------------------------------------------------------------
(* Bounds *)

MaxWorldId == 2          \* add_world is disabled once next_world_id exceeds it
MaxSubsteps == 2         \* sub-step counts are 1..MaxSubsteps
MaxDtUnits == 2          \* dt and max_dt are 2..MaxDtUnits time units
MaxElapsedUnits == 3     \* a frame's elapsed time is 0..MaxElapsedUnits time units
MaxTimeScale == 2        \* time_scale is 1..MaxTimeScale
MaxFrames == 2           \* host updates (runs of the step_simulation system) per behaviour
MaxSteppedWorlds == 2     \* SpecStepper registers at most this many worlds
MaxEntity == 1           \* scene entities are 1..MaxEntity
MaxSceneEntities == 2    \* an authored scene has entities 1..MaxSceneEntities
MaxCollisionEvents == 3  \* collision events sent per behaviour of SpecColliding
MaxJoints == 3           \* joint components the host inserts per behaviour of SpecJoints
CollidingEntityCount == 3  \* the entities of a scene of SpecColliding
JointEntityCount == 3    \* the entities of a scene of SpecJoints

DEFAULT_WORLD_ID == 0

\* Option<T>: None is the empty tuple, Some(x) the one-element tuple.
None == <<>>

Some(x) == <<x>>

Min(a, b) == IF a <= b THEN a ELSE b

RECURSIVE Gcd(_, _)
Gcd(a, b) == IF b = 0 THEN a ELSE Gcd(b, a % b)

RECURSIVE LcmUpTo(_)
LcmUpTo(n) == IF n <= 1 THEN 1 ELSE LET l == LcmUpTo(n - 1) IN (l * n) \div Gcd(l, n)

TimeUnit == LcmUpTo(MaxSubsteps)

\* A length every dt divides, so that the blends of poses that many lengths apart
\* are whole.
LengthUnit == LcmUpTo(MaxDtUnits) * TimeUnit

Entities == 1..MaxEntity

WorldIds == 0..(MaxWorldId + 1)

EmptyMap == <<>>

\* A scene with no entity spawned.
NoEntities == <<>>

\* HashMap::remove
MapRemove(map, key) == [k \in DOMAIN map \ {key} |-> map[k]]

\* HashMap::insert
MapInsert(map, key, value) == [k \in DOMAIN map \cup {key} |-> IF k = key THEN value ELSE map[k]]

\* The numbers of a set in ascending order.
RECURSIVE Ascending(_)
Ascending(numbers) ==
    IF numbers = {} THEN <<>>
    ELSE LET least == CHOOSE n \in numbers : \A m \in numbers : n <= m
         IN <<least>> \o Ascending(numbers \ {least})

\* RemovedComponents<RapierRigidBodyHandle> and <RapierColliderHandle> with
\* nothing to read.
NoneRemoved == [bodies |-> {}, colliders |-> {}, impulse_joints |-> {}, multibody_joints |-> {}]

-----------------------------------------------------------------------------
(* Vectors, rotations about Z, isometries and transforms *)

ZERO == <<0, 0>>

VAdd(a, b) == <<a[1] + b[1], a[2] + b[2]>>

VSub(a, b) == <<a[1] - b[1], a[2] - b[2]>>

VScale(k, a) == <<k * a[1], k * a[2]>>

\* Rotations are counted in quarter turns: Quat::IDENTITY is 0.
QuatIDENTITY == 0

QuatMul(q, r) == (q + r) % 4

QuatInverse(q) == (4 - q) % 4

\* Quat * Vec3: the vector turned by q quarter turns.
QuatMulVec(q, a) ==
    CASE q = 0 -> a
      [] q = 1 -> <<-a[2], a[1]>>
      [] q = 2 -> <<-a[1], -a[2]>>
      [] q = 3 -> <<a[2], -a[1]>>

\* The engine's pose of a body: Isometry { translation, rotation }
Isometry(translation, rotation) == [translation |-> translation, rotation |-> rotation]

\* Transform { translation, rotation, scale }, with a uniform scale
Transform(translation, rotation, scale) ==
    [translation |-> translation, rotation |-> rotation, scale |-> scale]

TransformIDENTITY == Transform(ZERO, QuatIDENTITY, 1)

\* Transform::mul_transform
mul_transform(a, b) ==
    Transform(VAdd(QuatMulVec(a.rotation, VScale(a.scale, b.translation)), a.translation),
              QuatMul(a.rotation, b.rotation),
              a.scale * b.scale)

\* utils::iso_to_transform and utils::transform_to_iso
iso_to_transform(iso) == Transform(iso.translation, iso.rotation, 1)

transform_to_iso(transform) == Isometry(transform.translation, transform.rotation)

-----------------------------------------------------------------------------
(* RapierWorld *)

RapierWorldDefault ==
    [ gravity |-> ZERO,
      bodies |-> EmptyMap,
      colliders |-> EmptyMap,
      impulse_joints |-> EmptyMap,
      multibody_joints |-> EmptyMap,
      integration_parameters_dt |-> TimeUnit,
      narrow_phase |-> {},          \* the pairs of colliders of the contact graph
      overlapping |-> {},           \* the pairs of colliders whose shapes overlap
      removed_colliders |-> {},     \* the colliders removed since the last step
      event_handler |-> FALSE,
      handler_received |-> <<>>,    \* what the configured event handler was given
      reported |-> [collision |-> <<>>, contact_force |-> <<>>],
                                    \* what the narrow phase reported in the last call
      last_body_transform_set |-> EmptyMap,
      entity2body |-> EmptyMap,
      entity2collider |-> EmptyMap,
      entity2impulse_joint |-> EmptyMap,
      entity2multibody_joint |-> EmptyMap,
      deleted_colliders |-> EmptyMap,
      inserted_bodies |-> 0,        \* the bodies / colliders inserted so far: a handle
      inserted_colliders |-> 0,     \* is an arena index with a generation, never reused
      inserted_impulse_joints |-> 0,
      collision_events_to_send |-> <<>>,
      contact_force_events_to_send |-> <<>> ]

\* A world that was populated with one moving rigid body (handle 0) of entity e,
\* with one collider (handle 0) of the same entity attached to it.
WorldWithBody(e) ==
    [ RapierWorldDefault EXCEPT
        !.bodies = (0 :> [user_data |-> e, position |-> Isometry(ZERO, 0), linvel |-> <<1, 0>>,
                           sleeping |-> FALSE, enabled |-> TRUE, body_type |-> "Dynamic",
                           next_position |-> None]),
        !.colliders = (0 :> [user_data |-> e, parent |-> Some(0)]),
        !.entity2body = (e :> 0),
        !.entity2collider = (e :> 0),
        !.inserted_bodies = 1,
        !.inserted_colliders = 1 ]

InputWorlds == {RapierWorldDefault} \cup {WorldWithBody(e) : e \in Entities}

\* The entities that own a body of the world.
BodyEntities(world) == {world.bodies[h].user_data : h \in DOMAIN world.bodies}

\* RapierWorld::rigid_body_entity
world_rigid_body_entity(world, handle) ==
    IF handle \in DOMAIN world.bodies
    THEN Some(world.bodies[handle].user_data)
    ELSE None

-----------------------------------------------------------------------------
(* Results *)

Ok(v) == [tag |-> "Ok", world_id |-> -1, value |-> v]

WorldNotFound(world_id) == [tag |-> "WorldNotFound", world_id |-> world_id, value |-> None]

OptSome(v) == [tag |-> "Some", world_id |-> -1, value |-> v]

OptNone == [tag |-> "None", world_id |-> -1, value |-> None]

\* The stepper calls of a host update, by world id; empty for any other operation.
NoCalls == <<>>

Called(op, world_id, result) ==
    [op |-> op, world_id |-> world_id, result |-> result, calls |-> NoCalls]

-----------------------------------------------------------------------------
(* TimestepMode and the stepper, RapierWorld::step_simulation *)

Fixed(dt, substeps) ==
    [kind |-> "Fixed", dt |-> dt, time_scale |-> 1, substeps |-> substeps]

\* The dt field of a Variable mode holds max_dt.
Variable(max_dt, time_scale, substeps) ==
    [kind |-> "Variable", dt |-> max_dt, time_scale |-> time_scale, substeps |-> substeps]

Interpolated(dt, time_scale, substeps) ==
    [kind |-> "Interpolated", dt |-> dt, time_scale |-> time_scale, substeps |-> substeps]

\* A timestep of at least two time units, so that a frame can be shorter than dt.
DtValues == {k * TimeUnit : k \in 2..MaxDtUnits}

ElapsedValues == {k * TimeUnit : k \in 0..MaxElapsedUnits}

TimeScales == 1..MaxTimeScale

SubstepCounts == 1..MaxSubsteps

\* TimestepMode::default(): one step per frame of the elapsed time, up to max_dt.
DefaultTimestepMode == Variable(2 * TimeUnit, 1, 1)

TimestepModes ==
    {Fixed(dt, n) : dt \in DtValues, n \in SubstepCounts}
    \cup {Variable(dt, ts, n) : dt \in DtValues, ts \in TimeScales, n \in SubstepCounts}
    \cup {Interpolated(dt, ts, n) : dt \in DtValues, ts \in TimeScales, n \in SubstepCounts}

\* The pairs of a set in ascending order.
RECURSIVE SortedPairs(_)
SortedPairs(pairs) ==
    IF pairs = {} THEN <<>>
    ELSE LET least == CHOOSE p \in pairs :
                        \A q \in pairs : p[1] < q[1] \/ (p[1] = q[1] /\ p[2] <= q[2])
         IN <<least>> \o SortedPairs(pairs \ {least})

\* rapier's CollisionEvent::Started / Stopped and ContactForceEvent of a pair.
EngineEvent(kind, pair, flag) ==
    [kind |-> kind, collider1 |-> pair[1], collider2 |-> pair[2], removed |-> flag]

EngineEvents(kind, pairs, flag) ==
    [i \in 1..Cardinality(pairs) |-> EngineEvent(kind, SortedPairs(pairs)[i], flag)]

\* What the narrow phase reports in one step: Stopped with the REMOVED flag for
\* the pairs of a removed collider, Started for the pairs that came to overlap,
\* Stopped for those that no longer do, and a contact force for every pair in
\* contact after that.
NarrowPhaseStep(world) ==
    LET gone == {p \in world.narrow_phase : p[1] \in world.removed_colliders
                                            \/ p[2] \in world.removed_colliders}
        live == world.narrow_phase \ gone
        present == {p \in world.overlapping : p[1] \in DOMAIN world.colliders
                                              /\ p[2] \in DOMAIN world.colliders}
        started == present \ live
        stopped == live \ present
        now == (live \cup started) \ stopped
    IN [ narrow_phase |-> now,
         collision |-> EngineEvents("Stopped", gone, TRUE)
                       \o EngineEvents("Started", started, FALSE)
                       \o EngineEvents("Stopped", stopped, FALSE),
         contact_force |-> EngineEvents("ContactForce", now, FALSE) ]

\* The choice with the internal queue first.
EventHandlerForQueueFirst(world, create_bevy_events) ==
    IF create_bevy_events THEN "event_queue"
    ELSE IF world.event_handler THEN "event_handler"
    ELSE "none"

\* `let events = self.event_handler.as_deref().or_else(|| event_queue..).unwrap_or(&())`
EventHandlerFor(world, create_bevy_events) ==
    IF world.event_handler THEN "event_handler"
    ELSE IF create_bevy_events THEN "event_queue"
    ELSE "none"

\* EventQueue::collider2entity: the entity of the collider, of the deleted
\* collider when it is gone; None where the queue panics.
collider2entity(world, handle) ==
    IF handle \in DOMAIN world.colliders THEN Some(world.colliders[handle].user_data)
    ELSE IF handle \in DOMAIN world.deleted_colliders THEN Some(world.deleted_colliders[handle])
    ELSE None

\* The CollisionEvent / ContactForceEvent the queue makes of an engine event.
BevyEvent(world, event) ==
    [ kind |-> event.kind,
      entity1 |-> collider2entity(world, event.collider1),
      entity2 |-> collider2entity(world, event.collider2),
      removed |-> event.removed ]

BevyEvents(world, events) == [i \in 1..Len(events) |-> BevyEvent(world, events[i])]

\* EventHandler::handle_collision_event / handle_contact_force_event of the sink
\* chosen for the call.
HandleEvents(world, events, out) ==
    CASE events = "event_handler" ->
           [world EXCEPT !.handler_received = @ \o out.collision \o out.contact_force]
      [] events = "event_queue" ->
           [world EXCEPT
              !.collision_events_to_send = @ \o BevyEvents(world, out.collision),
              !.contact_force_events_to_send = @ \o BevyEvents(world, out.contact_force)]
      [] OTHER -> world

\* One call of the engine's PhysicsPipeline::step with sub-step length sdt: the
\* narrow phase reports to the event handler, and with no joints and no contact
\* forces every dynamic body that is enabled and awake is integrated over sdt; a
\* position-based kinematic body goes to its next kinematic position, a fixed
\* body stays.
PipelineStep(world, sdt, events) ==
    LET out == NarrowPhaseStep(world)
    IN [ HandleEvents(world, events, out) EXCEPT
           !.narrow_phase = out.narrow_phase,
           !.removed_colliders = {},
           !.reported = [collision |-> @.collision \o out.collision,
                         contact_force |-> @.contact_force \o out.contact_force],
           !.bodies =
             [ h \in DOMAIN world.bodies |->
                 LET rb == world.bodies[h]
                     linvel == VAdd(rb.linvel, VScale(sdt, world.gravity))
                 IN IF rb.sleeping \/ ~rb.enabled \/ rb.body_type = "Fixed" THEN rb
                    ELSE IF rb.body_type = "KinematicPositionBased"
                    THEN [rb EXCEPT !.position = IF rb.next_position # None
                                                 THEN rb.next_position[1] ELSE @,
                                    !.next_position = None]
                    ELSE [rb EXCEPT !.linvel = linvel,
                                    !.position.translation =
                                        VAdd(rb.position.translation, VScale(sdt, linvel))] ] ]

\* `for _ in 0..substeps { self.pipeline.step(.., &substep_integration_parameters, ..) }`
RECURSIVE RunSubsteps(_, _, _, _)
RunSubsteps(world, sdt, n, events) ==
    IF n <= 0 THEN world
    ELSE RunSubsteps(PipelineStep(world, sdt, events), sdt, n - 1, events)

SubstepLog(sdt, n) == [i \in 1..n |-> sdt]

\* The snapshot before the last step of the accumulator loop: every entity of the
\* interpolation query whose handle is a body of this world.
SnapshotInterpolation(world, interp) ==
    [ e \in DOMAIN interp |->
        IF interp[e].handle \in DOMAIN world.bodies
        THEN [interp[e] EXCEPT !.start = Some(world.bodies[interp[e].handle].position),
                               !.end = None]
        ELSE interp[e] ]

\* The state a stepper call works on, and what it did.
StepState(world, create_bevy_events, d, interp) ==
    [ world |-> [world EXCEPT !.reported = RapierWorldDefault.reported],
      create_bevy_events |-> create_bevy_events, diff |-> d, interp |-> interp, steps |-> 0, sub_dts |-> <<>>,
      events |-> EventHandlerFor(world, create_bevy_events),
      snapshots |-> <<>>,             \* the number of steps run before each snapshot
      prev_bodies |-> world.bodies ]  \* the bodies before the step run last

\* The loop with the guard diff >= 0.
RECURSIVE InterpolatedLoopInclusive(_, _, _, _, _)
InterpolatedLoopInclusive(st, dt, time_scale, substeps, has_query) ==
    IF st.diff >= 0
    THEN LET last_step == st.diff - dt < 0 /\ has_query
             sdt == (dt \div substeps) * time_scale
         IN InterpolatedLoopInclusive(
                [ world |-> RunSubsteps(st.world, sdt, substeps, st.events),
                  diff |-> st.diff - dt,
                  interp |-> IF last_step
                             THEN SnapshotInterpolation(st.world, st.interp)
                             ELSE st.interp,
                  steps |-> st.steps + 1,
                  sub_dts |-> st.sub_dts \o SubstepLog(sdt, substeps),
                  snapshots |-> IF last_step THEN Append(st.snapshots, st.steps)
                                ELSE st.snapshots,
                  prev_bodies |-> st.world.bodies,
                  events |-> st.events ],
                dt, time_scale, substeps, has_query)
    ELSE st

\* The loop with the guard diff >= dt.
RECURSIVE InterpolatedLoopFloor(_, _, _, _, _)
InterpolatedLoopFloor(st, dt, time_scale, substeps, has_query) ==
    IF st.diff >= dt
    THEN LET last_step == st.diff - dt < dt /\ has_query
             sdt == (dt \div substeps) * time_scale
         IN InterpolatedLoopFloor(
                [ world |-> RunSubsteps(st.world, sdt, substeps, st.events),
                  diff |-> st.diff - dt,
                  interp |-> IF last_step
                             THEN SnapshotInterpolation(st.world, st.interp)
                             ELSE st.interp,
                  steps |-> st.steps + 1,
                  sub_dts |-> st.sub_dts \o SubstepLog(sdt, substeps),
                  snapshots |-> IF last_step THEN Append(st.snapshots, st.steps)
                                ELSE st.snapshots,
                  prev_bodies |-> st.world.bodies,
                  events |-> st.events ],
                dt, time_scale, substeps, has_query)
    ELSE st

\* The loop with the snapshot taken before its first step.
RECURSIVE InterpolatedLoopSnapshotFirst(_, _, _, _, _)
InterpolatedLoopSnapshotFirst(st, dt, time_scale, substeps, has_query) ==
    IF st.diff > 0
    THEN LET last_step == st.steps = 0 /\ has_query
             sdt == (dt \div substeps) * time_scale
         IN InterpolatedLoopSnapshotFirst(
                [ world |-> RunSubsteps(st.world, sdt, substeps, st.events),
                  diff |-> st.diff - dt,
                  interp |-> IF last_step
                             THEN SnapshotInterpolation(st.world, st.interp)
                             ELSE st.interp,
                  steps |-> st.steps + 1,
                  sub_dts |-> st.sub_dts \o SubstepLog(sdt, substeps),
                  snapshots |-> IF last_step THEN Append(st.snapshots, st.steps)
                                ELSE st.snapshots,
                  prev_bodies |-> st.world.bodies,
                  events |-> st.events ],
                dt, time_scale, substeps, has_query)
    ELSE st

\* `while sim_to_render_time.diff > 0.0 { .. sim_to_render_time.diff -= dt; }`
RECURSIVE InterpolatedLoop(_, _, _, _, _)
InterpolatedLoop(st, dt, time_scale, substeps, has_query) ==
    IF st.diff > 0
    THEN LET last_step == st.diff - dt <= 0 /\ has_query
             sdt == (dt \div substeps) * time_scale
         IN InterpolatedLoop(
                [ world |-> RunSubsteps(st.world, sdt, substeps, st.events),
                  diff |-> st.diff - dt,
                  interp |-> IF last_step
                             THEN SnapshotInterpolation(st.world, st.interp)
                             ELSE st.interp,
                  steps |-> st.steps + 1,
                  sub_dts |-> st.sub_dts \o SubstepLog(sdt, substeps),
                  snapshots |-> IF last_step THEN Append(st.snapshots, st.steps)
                                ELSE st.snapshots,
                  prev_bodies |-> st.world.bodies,
                  events |-> st.events ],
                dt, time_scale, substeps, has_query)
    ELSE st

\* The arm with time_scale applied to the accumulated time.
StepInterpolatedScaledElapsed(st, mode, elapsed, has_query) ==
    InterpolatedLoop(
        [st EXCEPT !.world.integration_parameters_dt = mode.dt,
                   !.diff = st.diff + elapsed * mode.time_scale],
        mode.dt, mode.time_scale, mode.substeps, has_query)

\* TimestepMode::Interpolated arm
StepInterpolated(st, mode, elapsed, has_query) ==
    InterpolatedLoop(
        [st EXCEPT !.world.integration_parameters_dt = mode.dt,
                   !.diff = st.diff + elapsed],
        mode.dt, mode.time_scale, mode.substeps, has_query)

\* TimestepMode::Variable arm
StepVariable(st, mode, elapsed) ==
    LET dt == Min(elapsed * mode.time_scale, mode.dt)
        sdt == dt \div mode.substeps
    IN [st EXCEPT !.world = RunSubsteps([st.world EXCEPT !.integration_parameters_dt = dt],
                                        sdt, mode.substeps, st.events),
                  !.steps = 1,
                  !.sub_dts = SubstepLog(sdt, mode.substeps)]

\* The arm with the step cut to the elapsed time.
StepFixedBuggyElapsed(st, mode, elapsed) ==
    LET sdt == Min(elapsed, mode.dt) \div mode.substeps
    IN [st EXCEPT !.world = RunSubsteps([st.world EXCEPT !.integration_parameters_dt = mode.dt],
                                        sdt, mode.substeps, st.events),
                  !.steps = 1,
                  !.sub_dts = SubstepLog(sdt, mode.substeps)]

\* TimestepMode::Fixed arm
StepFixed(st, mode, elapsed) ==
    LET sdt == mode.dt \div mode.substeps
    IN [st EXCEPT !.world = RunSubsteps([st.world EXCEPT !.integration_parameters_dt = mode.dt],
                                        sdt, mode.substeps, st.events),
                  !.steps = 1,
                  !.sub_dts = SubstepLog(sdt, mode.substeps)]

\* RapierWorld::step_simulation
world_step_simulation(st, mode, elapsed, has_query) ==
    CASE mode.kind = "Interpolated" -> StepInterpolated(st, mode, elapsed, has_query)
      [] mode.kind = "Variable" -> StepVariable(st, mode, elapsed)
      [] mode.kind = "Fixed" -> StepFixed(st, mode, elapsed)

-----------------------------------------------------------------------------
(* RapierContext: the registry of worlds *)

\* RapierContext::new(world): the custom starting world is registered as world 0.
Init ==
    /\ \E world \in InputWorlds : worlds = (DEFAULT_WORLD_ID :> world)
    /\ next_world_id = 1
    /\ timestep_mode \in TimestepModes
    /\ diff = 0
    /\ interpolation = [e \in Entities |-> [handle |-> 0, start |-> None, end |-> None]]
    /\ event_stream = [collision |-> <<>>, contact_force |-> <<>>, read |-> 0]
    /\ frames = 0
    /\ scene = NoEntities
    /\ removed = NoneRemoved
    /\ stage = "StepSimulation"
    /\ authored = NoEntities
    /\ returned = <<>>
    /\ last = Called("new", DEFAULT_WORLD_ID, Ok(None))

\* The entities that own a body in some registered world.
OwnedEntities == UNION {BodyEntities(worlds[id]) : id \in DOMAIN worlds}

\* add_world handing out the least free id.
AddWorldBuggyReuse(ws, next, world) ==
    LET free == {id \in 1..next : id \notin DOMAIN ws}
        world_id == CHOOSE id \in free : \A other \in free : id <= other
    IN [worlds |-> (world_id :> world) @@ ws, next_world_id |-> next + 1, world_id |-> world_id]

\* RapierContext::add_world, as a function of the registry
AddWorldResult(ws, next, world) ==
    LET world_id == next
    IN [worlds |-> (world_id :> world) @@ ws, next_world_id |-> next + 1, world_id |-> world_id]

add_world(world) ==
    /\ next_world_id <= MaxWorldId
    /\ BodyEntities(world) \cap OwnedEntities = {}
    /\ LET r == AddWorldResult(worlds, next_world_id, world)
       IN /\ worlds' = r.worlds
          /\ next_world_id' = r.next_world_id
          /\ returned' = Append(returned, r.world_id)
          /\ last' = Called("add_world", r.world_id, Ok(r.world_id))
    /\ UNCHANGED <<timestep_mode, removed, diff, interpolation, event_stream, frames, scene>>

\* remove_world refusing the default world's id.
RemoveWorldBuggyRejectDefault(ws, world_id) ==
    IF world_id \in DOMAIN ws /\ world_id # DEFAULT_WORLD_ID
    THEN [worlds |-> [id \in DOMAIN ws \ {world_id} |-> ws[id]], result |-> Ok(ws[world_id])]
    ELSE [worlds |-> ws, result |-> WorldNotFound(world_id)]

\* remove_world returning the world and keeping it registered.
RemoveWorldBuggyKeep(ws, world_id) ==
    IF world_id \in DOMAIN ws
    THEN [worlds |-> ws, result |-> Ok(ws[world_id])]
    ELSE [worlds |-> ws, result |-> WorldNotFound(world_id)]

\* remove_world emptying the worlds that stay registered.
RemoveWorldBuggyClear(ws, world_id) ==
    IF world_id \in DOMAIN ws
    THEN [worlds |-> [id \in DOMAIN ws \ {world_id} |-> RapierWorldDefault],
          result |-> Ok(ws[world_id])]
    ELSE [worlds |-> ws, result |-> WorldNotFound(world_id)]

\* RapierContext::remove_world, as a function of the registry
RemoveWorldResult(ws, world_id) ==
    IF world_id \in DOMAIN ws
    THEN [worlds |-> [id \in DOMAIN ws \ {world_id} |-> ws[id]], result |-> Ok(ws[world_id])]
    ELSE [worlds |-> ws, result |-> WorldNotFound(world_id)]

remove_world(world_id) ==
    /\ LET r == RemoveWorldResult(worlds, world_id)
       IN /\ worlds' = r.worlds
          /\ last' = Called("remove_world", world_id, r.result)
    /\ UNCHANGED <<next_world_id, timestep_mode, removed, diff, interpolation, event_stream, frames, scene, returned>>

\* RapierContext::get_world / get_world_mut, as a function of the registry
GetWorldResult(ws, world_id) ==
    IF world_id \in DOMAIN ws THEN Ok(ws[world_id]) ELSE WorldNotFound(world_id)

get_world(world_id) ==
    /\ last' = Called("get_world", world_id, GetWorldResult(worlds, world_id))
    /\ UNCHANGED <<worlds, next_world_id, timestep_mode, removed, diff, interpolation, event_stream, frames, scene, returned>>

get_world_mut(world_id) ==
    /\ last' = Called("get_world_mut", world_id, GetWorldResult(worlds, world_id))
    /\ UNCHANGED <<worlds, next_world_id, timestep_mode, removed, diff, interpolation, event_stream, frames, scene, returned>>

\* The entities a scene query of the world can report: the facade resolves the
\* collider handles the engine finds to the entities stored in the colliders.
ColliderEntities(world) == {world.colliders[h].user_data : h \in DOMAIN world.colliders}

QueryOps ==
    { "cast_ray", "cast_ray_and_get_normal", "intersections_with_ray",
      "intersection_with_shape", "project_point", "intersections_with_point",
      "project_point_and_get_feature", "colliders_with_aabb_intersecting_aabb",
      "cast_shape", "nonlinear_cast_shape", "intersections_with_shape" }

\* What a world-scoped operation computes on the world it finds.  A scene query
\* and move_shape are answered from the world's colliders (with no obstacle hit
\* the controller moves no body); collider poses are derived from the body poses
\* and are not stored, so propagating them changes nothing here.
ScopedValue(op, world) ==
    CASE op = "entity2body" -> world.entity2body
      [] op = "entity2collider" -> world.entity2collider
      [] op = "entity2impulse_joint" -> world.entity2impulse_joint
      [] op = "entity2multibody_joint" -> world.entity2multibody_joint
      [] op \in QueryOps \cup {"move_shape"} -> ColliderEntities(world)
      [] op = "propagate_modified_body_positions_to_colliders_for_world" -> None

\* The error carrying the default id instead of the id asked for.
ScopedBuggyNoId(ws, world_id, op) ==
    IF world_id \in DOMAIN ws
    THEN Ok(ScopedValue(op, ws[world_id]))
    ELSE WorldNotFound(DEFAULT_WORLD_ID)

\* `self.worlds.get(&world_id).map_or(Err(WorldNotFound { world_id }), |x| Ok(..))`
ScopedResult(ws, world_id, op) ==
    IF world_id \in DOMAIN ws
    THEN Ok(ScopedValue(op, ws[world_id]))
    ELSE WorldNotFound(world_id)

\* An operation that reads the registry and changes nothing.
ReadOnly(op, world_id, result) ==
    /\ last' = Called(op, world_id, result)
    /\ UNCHANGED <<worlds, next_world_id, timestep_mode, removed, diff, interpolation, event_stream,
                   frames, scene, returned>>

\* A world-scoped operation that changes nothing in a world it finds.
Scoped(op, world_id) == ReadOnly(op, world_id, ScopedResult(worlds, world_id, op))

entity2body(world_id) == Scoped("entity2body", world_id)

entity2collider(world_id) == Scoped("entity2collider", world_id)

entity2impulse_joint(world_id) == Scoped("entity2impulse_joint", world_id)

entity2multibody_joint(world_id) == Scoped("entity2multibody_joint", world_id)

\* RapierContext::cast_ray .. intersections_with_shape: the world-scoped queries
query(op, world_id) == Scoped(op, world_id)

\* RapierContext::move_shape
move_shape(world_id) == Scoped("move_shape", world_id)

\* RapierContext::propagate_modified_body_positions_to_colliders_for_world
propagate_modified_body_positions_to_colliders_for_world(world_id) ==
    Scoped("propagate_modified_body_positions_to_colliders_for_world", world_id)

\* RapierContext::rigid_body_entity scans the worlds in the map's iteration order
\* and returns the first match: any world that holds the handle may answer.
rigid_body_entity_results(ws, handle) ==
    LET found == {world_rigid_body_entity(ws[id], handle) : id \in DOMAIN ws} \ {None}
    IN IF found = {} THEN {OptNone} ELSE {OptSome(e[1]) : e \in found}

\* RapierContext::get_collider_parent_from_world
get_collider_parent_from_world_results(ws, entity, world) ==
    IF entity \notin DOMAIN world.entity2collider THEN {OptNone}
    ELSE LET h == world.entity2collider[entity]
         IN IF h \notin DOMAIN world.colliders THEN {OptNone}
            ELSE IF world.colliders[h].parent = None THEN {OptNone}
            ELSE rigid_body_entity_results(ws, world.colliders[h].parent[1])

\* RapierContext::collider_parent_for_world
collider_parent_for_world_results(ws, entity, world_id) ==
    IF world_id \in DOMAIN ws
    THEN get_collider_parent_from_world_results(ws, entity, ws[world_id])
    ELSE {OptNone}

collider_parent_for_world(entity, world_id) ==
    \E r \in collider_parent_for_world_results(worlds, entity, world_id) :
        ReadOnly("collider_parent_for_world", world_id, r)

\* RapierContext::rigid_body_entity_in_world
rigid_body_entity_in_world_result(ws, handle, world_id) ==
    IF world_id \in DOMAIN ws
    THEN LET e == world_rigid_body_entity(ws[world_id], handle)
         IN IF e = None THEN OptNone ELSE OptSome(e[1])
    ELSE OptNone

rigid_body_entity_in_world(handle, world_id) ==
    ReadOnly("rigid_body_entity_in_world", world_id,
             rigid_body_entity_in_world_result(worlds, handle, world_id))

-----------------------------------------------------------------------------
(* The step_simulation system: one host update *)

\* The flush that leaves the queues as they are.
SendBevyEventsKeep(world, stream) ==
    [ world |-> world,
      stream |-> [stream EXCEPT
                    !.collision = @ \o world.collision_events_to_send,
                    !.contact_force = @ \o world.contact_force_events_to_send] ]

\* RapierWorld::send_bevy_events: both queues are sent in order and cleared.
send_bevy_events(world, stream) ==
    [ world |-> [world EXCEPT !.collision_events_to_send = <<>>,
                              !.contact_force_events_to_send = <<>>],
      stream |-> [stream EXCEPT
                    !.collision = @ \o world.collision_events_to_send,
                    !.contact_force = @ \o world.contact_force_events_to_send] ]

\* What one stepper call of a host update did.
CallRecord(world_id, mode, elapsed, before, after) ==
    [ world_id |-> world_id, mode |-> mode, elapsed |-> elapsed,
      diff_before |-> before.diff, diff_after |-> after.diff,
      steps |-> after.steps, sub_dts |-> after.sub_dts,
      snapshots |-> after.snapshots,
      bodies_before |-> before.world.bodies,
      bodies_before_last |-> after.prev_bodies,
      interp_before |-> before.interp, interp_after |-> after.interp,
      create_bevy_events |-> before.create_bevy_events,
      world_before |-> before.world, world_after |-> after.world ]

\* The iteration orders of a HashMap with the given keys.
Orders(keys) ==
    {order \in [1..Cardinality(keys) -> keys] :
        \A i, j \in 1..Cardinality(keys) : i # j => order[i] # order[j]}

\* The state a host update threads through the worlds it visits.
FrameState(ws, d, interp, stream) ==
    [worlds |-> ws, diff |-> d, interp |-> interp, stream |-> stream, calls |-> NoCalls]

\* The body of `for (_, world) in context.worlds.iter_mut()` for one world.
VisitWorld(fs, world_id, mode, elapsed, physics_pipeline_active) ==
    IF physics_pipeline_active
    THEN LET before == StepState(fs.worlds[world_id], TRUE, fs.diff, fs.interp)
             after == world_step_simulation(before, mode, elapsed, TRUE)
             cleared == [after.world EXCEPT !.deleted_colliders = EmptyMap]
             sent == send_bevy_events(cleared, fs.stream)
         IN [ worlds |-> [fs.worlds EXCEPT ![world_id] = sent.world],
              diff |-> after.diff,
              interp |-> after.interp,
              stream |-> sent.stream,
              calls |-> (world_id :> CallRecord(world_id, mode, elapsed, before, after))
                        @@ fs.calls ]
    ELSE fs

RECURSIVE VisitWorlds(_, _, _, _, _, _)
VisitWorlds(fs, order, i, mode, elapsed, physics_pipeline_active) ==
    IF i > Len(order) THEN fs
    ELSE VisitWorlds(VisitWorld(fs, order[i], mode, elapsed, physics_pipeline_active),
                     order, i + 1, mode, elapsed, physics_pipeline_active)

\* systems_old::step_simulation, with the frame's elapsed time and configuration
step_simulation(elapsed, physics_pipeline_active) ==
    /\ frames < MaxFrames
    /\ \E order \in Orders(DOMAIN worlds) :
       \E fs \in {VisitWorlds(FrameState(worlds, diff, interpolation, event_stream),
                                order, 1, timestep_mode, elapsed, physics_pipeline_active)} :
            /\ worlds' = fs.worlds
            /\ diff' = fs.diff
            /\ interpolation' = fs.interp
            /\ event_stream' = fs.stream
            /\ last' = [op |-> "step_simulation", world_id |-> -1, result |-> Ok(None),
                        calls |-> fs.calls]
    /\ frames' = frames + 1
    /\ UNCHANGED <<next_world_id, timestep_mode, removed, scene, returned>>

\* The body of `for (world_id, world) in self.worlds.iter_mut()` of
\* RapierContext::step_simulation for one world; events tells whether the caller
\* passed the event writers.
ContextVisitWorld(fs, world_id, mode, elapsed, events, has_query) ==
    LET before == StepState(fs.worlds[world_id], events, fs.diff, fs.interp)
        after == world_step_simulation(before, mode, elapsed, has_query)
        sent == IF events THEN send_bevy_events(after.world, fs.stream)
                ELSE [world |-> after.world, stream |-> fs.stream]
    IN [ worlds |-> [fs.worlds EXCEPT ![world_id] = sent.world],
         diff |-> after.diff,
         interp |-> after.interp,
         stream |-> sent.stream,
         calls |-> (world_id :> CallRecord(world_id, mode, elapsed, before, after))
                   @@ fs.calls ]

RECURSIVE ContextVisitWorlds(_, _, _, _, _, _, _)
ContextVisitWorlds(fs, order, i, mode, elapsed, events, has_query) ==
    IF i > Len(order) THEN fs
    ELSE ContextVisitWorlds(
             ContextVisitWorld(fs, order[i], mode, elapsed, events, has_query),
             order, i + 1, mode, elapsed, events, has_query)

\* RapierContext::step_simulation(mut self, ..): the context is moved into the
\* call and dropped when it returns.  The variables keep what the context held at
\* the end of the body; the schedule that owned it runs nothing on it any more.
context_step_simulation(elapsed, events, has_query) ==
    /\ frames < MaxFrames
    /\ \E order \in Orders(DOMAIN worlds) :
       \E fs \in {ContextVisitWorlds(FrameState(worlds, diff, interpolation, event_stream),
                                       order, 1, timestep_mode, elapsed, events, has_query)} :
            /\ worlds' = fs.worlds
            /\ diff' = fs.diff
            /\ interpolation' = fs.interp
            /\ event_stream' = fs.stream
            /\ last' = [op |-> "RapierContext::step_simulation", world_id |-> -1,
                        result |-> Ok(events), calls |-> fs.calls]
    /\ frames' = frames + 1
    /\ UNCHANGED <<next_world_id, timestep_mode, removed, scene, returned>>

-----------------------------------------------------------------------------
(* The pose writeback_rigid_bodies computes for a body *)

\* A rational number num / den, den > 0.
Rational(num, den) == [num |-> num, den |-> den]

\* The fraction with the dt term of the numerator left out.
BlendFractionBuggyNoDt(dt, d) == Rational(d, dt)

\* `(dt + sim_to_render_time.diff) / dt`
BlendFraction(dt, d) == Rational(dt + d, dt)

\* a + (b - a) * t for vectors: a vector when the coordinates are whole numbers,
\* the exact quotient otherwise.
Lerp(a, b, t) ==
    LET num == VAdd(VScale(t.den, a), VScale(t.num, VSub(b, a)))
    IN IF num[1] % t.den = 0 /\ num[2] % t.den = 0
       THEN <<num[1] \div t.den, num[2] \div t.den>>
       ELSE Rational(num, t.den)

\* The rotation a fraction t of the way from q to r: a quarter-turn count at
\* the ends and between equal rotations, the pair and the fraction otherwise.
Slerp(q, r, t) ==
    IF q = r \/ t.num = 0 THEN q
    ELSE IF t.num = t.den THEN r
    ELSE [from |-> q, to |-> r, t |-> t]

\* TransformInterpolation::lerp_slerp(t): the blend of start and end, None when
\* either is missing.
lerp_slerp(start, end, t) ==
    IF start = None \/ end = None THEN None
    ELSE Some(Isometry(Lerp(start[1].translation, end[1].translation, t),
                       Slerp(start[1].rotation, end[1].rotation, t)))

\* The pose written for body rb of an entity with interpolation state interp:
\* `end` is filled with the engine pose when it is None, and the blend is used
\* when there is one, the engine pose otherwise.
interpolated_pos(rb, interp, mode, d) ==
    IF mode.kind = "Interpolated"
    THEN LET end == IF interp.end = None THEN Some(rb.position) ELSE interp.end
             interpolated == lerp_slerp(interp.start, end, BlendFraction(mode.dt, d))
         IN IF interpolated # None THEN iso_to_transform(interpolated[1])
            ELSE iso_to_transform(rb.position)
    ELSE iso_to_transform(rb.position)

\* The body of the entity in the world.
BodyOf(id, e) == worlds[id].bodies[worlds[id].entity2body[e]]

-----------------------------------------------------------------------------
(* The scene: entities, their components and their hierarchy *)

\* An entity with its components: ChildOf (0 for a top-level entity), Transform,
\* Velocity, RigidBody, RigidBodyDisabled, RapierRigidBodyHandle and the world
\* it is linked to (PhysicsWorld / RapierContextEntityLink); link_changed is the
\* change tick of the link: set when it was inserted or written since
\* apply_changing_worlds ran last.  Sleeping is the component of that name, and
\* `changed` holds the names of the components that were written (DerefMut)
\* since apply_rigid_body_user_changes ran last.
EntityComponents(parent, transform, velocity, rigid_body, disabled, handle, link) ==
    [ parent |-> parent, transform |-> transform, velocity |-> velocity,
      rigid_body |-> rigid_body, disabled |-> disabled, handle |-> handle, link |-> link,
      collider |-> FALSE, collider_handle |-> None, link_changed |-> FALSE,
      sleeping |-> None, changed |-> {}, colliding |-> None,
      impulse_joint |-> None, impulse_joint_handle |-> None,
      multibody_joint |-> None, multibody_joint_handle |-> None ]

\* The entity with a Collider component added.
WithCollider(components) == [components EXCEPT !.collider = TRUE]

\* Query<Entity, Without<ChildOf>>
top_entities(sc) == {e \in DOMAIN sc : sc[e].parent = 0}

\* Query<&Children>
Children(sc, e) == {c \in DOMAIN sc : sc[c].parent = e}

\* GlobalTransform as the scene's transform propagation computes it.
RECURSIVE GlobalTransform(_, _)
GlobalTransform(sc, e) ==
    IF sc[e].parent = 0 THEN sc[e].transform
    ELSE mul_transform(GlobalTransform(sc, sc[e].parent), sc[e].transform)

\* The centre of mass of a body relative to its translation: colliders are
\* centred on their bodies.
CenterOfMass(rb) == ZERO

\* Query<RigidBodyWritebackComponents, Without<RigidBodyDisabled>>::get_mut
InWritebackQuery(sc, e) ==
    sc[e].handle # None /\ sc[e].link # None /\ ~sc[e].disabled

\* A component that is written whether or not its value differs.
AssignedAlways(name, old, new) == {name}

\* `if *component != new { *component = new; }`: the component is written, and
\* its change tick raised, only when the new value differs.
Assigned(name, old, new) == IF old # new THEN {name} ELSE {}

\* What writeback hands from an entity down to its children.
Handed(transform, delta_transform, velocity, vel_delta, world_offset) ==
    [ transform |-> transform, delta_transform |-> delta_transform, velocity |-> velocity,
      vel_delta |-> vel_delta, world_offset |-> world_offset ]

\* The mutant: a disabled child hands down what its parent handed to it.
DisabledHandedFromParent(from, transform) == from

\* What a disabled child hands down: its own transform composed with its
\* parent's, the parent's delta and no velocity.
DisabledHanded(from, transform) ==
    Handed(mul_transform(from.transform, transform), from.delta_transform, ZERO, ZERO,
           from.world_offset)

\* The engine pose writeback starts from: the blend for an interpolation-tracked
\* body in Interpolated mode, the pose of the body otherwise.
WritebackPose(wb, e, rb, mode, d) ==
    IF e \in DOMAIN wb.interp
    THEN interpolated_pos(rb, wb.interp[e], mode, d)
    ELSE iso_to_transform(rb.position)

\* `if interpolation.end.is_none() { interpolation.end = Some(*rb.position()); }`
FillEnd(interp, e, rb, mode) ==
    IF mode.kind = "Interpolated" /\ e \in DOMAIN interp /\ interp[e].end = None
    THEN [interp EXCEPT ![e].end = Some(rb.position)]
    ELSE interp

\* The body of the loop of writeback_rigid_bodies for a top-level entity of
\* the writeback query whose world runs the physics pipeline.
WritebackTop(wb, e, mode, d) ==
    LET ent == wb.scene[e]
        world_id == ent.link[1]
        handle == ent.handle[1]
        world == wb.worlds[world_id]
    IN IF handle \notin DOMAIN world.bodies
       THEN [wb |-> wb,
             handed |-> Handed(TransformIDENTITY, TransformIDENTITY, ZERO, ZERO, ZERO)]
       ELSE LET rb == world.bodies[handle]
                transform == ent.transform
                interpolated == [WritebackPose(wb, e, rb, mode, d)
                                     EXCEPT !.scale = transform.scale]
                rotation_delta == QuatMul(interpolated.rotation,
                                          QuatInverse(transform.rotation))
                com == CenterOfMass(rb)
                com_diff == VSub(com, QuatMulVec(rotation_delta, com))
                parent_delta ==
                    Transform(VSub(VSub(interpolated.translation, transform.translation),
                                   com_diff),
                              rotation_delta, transform.scale)
                new_vel == rb.linvel
                my_velocity == IF ent.velocity # None THEN ent.velocity[1] ELSE ZERO
                my_vel_delta == IF ent.velocity # None
                                THEN VSub(new_vel, ent.velocity[1]) ELSE ZERO
            IN [wb |->
                  [ worlds |-> [wb.worlds EXCEPT ![world_id].last_body_transform_set =
                                   (handle :> Transform(interpolated.translation,
                                                        interpolated.rotation, 1)) @@ @],
                    scene |-> [wb.scene EXCEPT
                                 ![e].transform.rotation = interpolated.rotation,
                                 ![e].transform.translation = interpolated.translation,
                                 ![e].velocity = IF @ # None THEN Some(new_vel) ELSE @,
                                 ![e].sleeping = IF @ # None THEN Some(rb.sleeping) ELSE @,
                                 ![e].changed =
                                     @ \cup Assigned("Transform",
                                                     <<transform.rotation,
                                                       transform.translation>>,
                                                     <<interpolated.rotation,
                                                       interpolated.translation>>)
                                       \cup Assigned("Velocity", ent.velocity,
                                                     IF ent.velocity # None
                                                     THEN Some(new_vel) ELSE None)
                                       \cup Assigned("Sleeping", ent.sleeping,
                                                     IF ent.sleeping # None
                                                     THEN Some(rb.sleeping) ELSE None)],
                    interp |-> FillEnd(wb.interp, e, rb, mode) ],
                handed |-> Handed(interpolated, parent_delta, my_velocity, my_vel_delta,
                                  transform.translation)]

\* The engine velocity of a child left as the step ended with it.
RelativeLinvelKept(old_linvel, parent_velocity) == old_linvel

\* `rb.set_linvel(parent_velocity.linvel); rb.set_linvel(old_linvel - rb.linvel())`:
\* the engine velocity of a child less what its parent handed down.
RelativeLinvel(old_linvel, parent_velocity) == VSub(old_linvel, parent_velocity)

\* The body of the loop of recurse_child_transforms for a child of the writeback
\* query whose world runs the physics pipeline; `from` is what the parent handed down.
WritebackChild(wb, child, from, mode, d) ==
    LET ent == wb.scene[child]
        world_id == ent.link[1]
        handle == ent.handle[1]
        world == wb.worlds[world_id]
    IN IF handle \notin DOMAIN world.bodies
       THEN [wb |-> wb, handed |-> from]
       ELSE LET rb == world.bodies[handle]
                old_transform == ent.transform
                pose == WritebackPose(wb, child, rb, mode, d)
                interpolated_translation == VSub(pose.translation, from.world_offset)
                inverse_parent_rotation == QuatInverse(from.transform.rotation)
                new_rotation == QuatIDENTITY
                translation_offset ==
                    IF ent.rigid_body = Some("Dynamic")
                    THEN from.delta_transform.translation ELSE ZERO
                new_translation ==
                    QuatMulVec(inverse_parent_rotation,
                        QuatMulVec(from.delta_transform.rotation,
                            VSub(interpolated_translation, translation_offset)))
                transform == [old_transform EXCEPT !.rotation = new_rotation,
                                                   !.translation = new_translation]
                inv_old_transform ==
                    Transform(VScale(-1, old_transform.translation),
                              QuatInverse(old_transform.rotation), old_transform.scale)
                delta_transform == mul_transform(transform, inv_old_transform)
                my_new_global_transform == mul_transform(from.transform, transform)
                old_linvel == rb.linvel
                linvel == IF ent.velocity # None
                          THEN RelativeLinvel(old_linvel, from.velocity) ELSE old_linvel
                new_vel == VSub(linvel, from.vel_delta)
            IN [wb |->
                  [ worlds |-> [wb.worlds EXCEPT
                                  ![world_id].last_body_transform_set =
                                      (handle :> my_new_global_transform) @@ @,
                                  ![world_id].bodies[handle].position =
                                      transform_to_iso(my_new_global_transform),
                                  ![world_id].bodies[handle].next_position = None,
                                  ![world_id].bodies[handle].linvel = linvel],
                    scene |-> [wb.scene EXCEPT
                                 ![child].transform = transform,
                                 ![child].velocity = IF @ # None THEN Some(new_vel) ELSE @,
                                 ![child].sleeping = IF @ # None THEN Some(rb.sleeping) ELSE @,
                                 ![child].changed =
                                     @ \cup Assigned("Transform",
                                                     <<old_transform.rotation,
                                                       old_transform.translation>>,
                                                     <<new_rotation, new_translation>>)
                                       \cup Assigned("Velocity", ent.velocity,
                                                     IF ent.velocity # None
                                                     THEN Some(new_vel) ELSE None)
                                       \cup Assigned("Sleeping", ent.sleeping,
                                                     IF ent.sleeping # None
                                                     THEN Some(rb.sleeping) ELSE None)],
                    interp |-> FillEnd(wb.interp, child, rb, mode) ],
                handed |-> Handed(my_new_global_transform, delta_transform,
                                  IF ent.velocity # None THEN old_linvel ELSE from.velocity,
                                  IF ent.velocity # None
                                  THEN VSub(new_vel, ent.velocity[1]) ELSE from.vel_delta,
                                  my_new_global_transform.translation)]

\* The least entity of a non-empty set: the queries are iterated in this order,
\* each entity writing only to its own components and body.
First(es) == CHOOSE e \in es : \A other \in es : e <= other

\* recurse_child_transforms over the children `todo` of one parent
RECURSIVE recurse_child_transforms(_, _, _, _, _, _)
recurse_child_transforms(wb, todo, from, mode, d, physics_pipeline_active) ==
    IF todo = {} THEN wb
    ELSE LET child == First(todo)
             ent == wb.scene[child]
             below == Children(wb.scene, child)
             after ==
                 IF InWritebackQuery(wb.scene, child)
                 THEN IF physics_pipeline_active
                      THEN LET r == WritebackChild(wb, child, from, mode, d)
                           IN recurse_child_transforms(r.wb, below, r.handed, mode, d,
                                                       physics_pipeline_active)
                      ELSE wb
                 ELSE IF ent.disabled
                      THEN recurse_child_transforms(
                               wb, below, DisabledHanded(from, ent.transform),
                               mode, d, physics_pipeline_active)
                      ELSE wb
         IN recurse_child_transforms(after, todo \ {child}, from, mode, d,
                                     physics_pipeline_active)

\* `for entity in top_entities.iter()` of writeback_rigid_bodies
RECURSIVE WritebackTops(_, _, _, _, _)
WritebackTops(wb, todo, mode, d, physics_pipeline_active) ==
    IF todo = {} THEN wb
    ELSE LET entity == First(todo)
             ent == wb.scene[entity]
             below == Children(wb.scene, entity)
             after ==
                 IF InWritebackQuery(wb.scene, entity)
                 THEN IF physics_pipeline_active
                      THEN LET r == WritebackTop(wb, entity, mode, d)
                           IN recurse_child_transforms(r.wb, below, r.handed, mode, d,
                                                       physics_pipeline_active)
                      ELSE wb
                 ELSE IF ent.disabled
                      THEN recurse_child_transforms(
                               wb, below,
                               Handed(ent.transform, TransformIDENTITY, ZERO, ZERO,
                                      ent.transform.translation),
                               mode, d, physics_pipeline_active)
                      ELSE wb
         IN WritebackTops(after, todo \ {entity}, mode, d, physics_pipeline_active)

\* Every entity of the writeback query is linked to a registered world
\* (`.expect("Invalid link")`).
LinksValid(sc, ws) ==
    \A e \in DOMAIN sc : InWritebackQuery(sc, e) => sc[e].link[1] \in DOMAIN ws

\* The system writeback_rigid_bodies
writeback_rigid_bodies(physics_pipeline_active) ==
    /\ LinksValid(scene, worlds)
    /\ \E wb \in {WritebackTops([worlds |-> worlds, scene |-> scene, interp |-> interpolation],
                                top_entities(scene), timestep_mode, diff,
                                physics_pipeline_active)} :
          /\ worlds' = wb.worlds
          /\ scene' = wb.scene
          /\ interpolation' = wb.interp
    /\ last' = [Called("writeback_rigid_bodies", -1, Ok(physics_pipeline_active))
                    EXCEPT !.calls = last.calls]
    /\ UNCHANGED <<next_world_id, timestep_mode, removed, diff, event_stream, frames, returned>>

-----------------------------------------------------------------------------
(* sync_vel: the velocity of the ancestors is added to the bodies below them *)

\* Query<(&RapierRigidBodyHandle, &RapierContextEntityLink)>::get
InSyncVelQuery(sc, e) == sc[e].handle # None /\ sc[e].link # None

\* sync_velocity_recursively that leaves the bodies as they are.
SyncVelocityNotAdded(ws, sc, todo, parent_vel) == ws

\* sync_velocity_recursively that hands down the velocity it was given, whatever
\* the entity's own.
RECURSIVE SyncVelocityOfTopOnly(_, _, _, _)
SyncVelocityOfTopOnly(ws, sc, todo, parent_vel) ==
    IF todo = {} THEN ws
    ELSE LET ent == First(todo)
             synced == /\ InSyncVelQuery(sc, ent)
                       /\ sc[ent].handle[1] \in DOMAIN ws[sc[ent].link[1]].bodies
             after == IF synced
                      THEN [ws EXCEPT ![sc[ent].link[1]].bodies[sc[ent].handle[1]].linvel =
                                         VAdd(@, parent_vel)]
                      ELSE ws
         IN SyncVelocityOfTopOnly(
               SyncVelocityOfTopOnly(after, sc, Children(sc, ent), parent_vel),
               sc, todo \ {ent}, parent_vel)

\* sync_velocity_recursively over the children `todo` of one parent
RECURSIVE sync_velocity_recursively(_, _, _, _)
sync_velocity_recursively(ws, sc, todo, parent_vel) ==
    IF todo = {} THEN ws
    ELSE LET ent == First(todo)
             synced == /\ InSyncVelQuery(sc, ent)
                       /\ sc[ent].handle[1] \in DOMAIN ws[sc[ent].link[1]].bodies
             vel == IF synced
                    THEN VAdd(ws[sc[ent].link[1]].bodies[sc[ent].handle[1]].linvel, parent_vel)
                    ELSE parent_vel
             after == IF synced
                      THEN [ws EXCEPT ![sc[ent].link[1]].bodies[sc[ent].handle[1]].linvel = vel]
                      ELSE ws
         IN sync_velocity_recursively(
               sync_velocity_recursively(after, sc, Children(sc, ent), vel),
               sc, todo \ {ent}, parent_vel)

\* sync_vel that takes the top-level entities for children of a moving parent.
SyncVelTopsToo(ws, sc, todo) == sync_velocity_recursively(ws, sc, todo, <<0, 2>>)

\* `for ent in top_ents.iter()` of sync_vel
RECURSIVE SyncVelTops(_, _, _)
SyncVelTops(ws, sc, todo) ==
    IF todo = {} THEN ws
    ELSE LET ent == First(todo)
             vel == IF sc[ent].velocity # None THEN sc[ent].velocity[1] ELSE ZERO
         IN SyncVelTops(sync_velocity_recursively(ws, sc, Children(sc, ent), vel),
                        sc, todo \ {ent})

\* The system sync_vel
sync_vel ==
    /\ \A e \in DOMAIN scene : InSyncVelQuery(scene, e) => scene[e].link[1] \in DOMAIN worlds
    /\ worlds' = SyncVelTops(worlds, scene, top_entities(scene))
    /\ last' = [Called("sync_vel", -1, Ok(None)) EXCEPT !.calls = last.calls]
    /\ UNCHANGED <<next_world_id, timestep_mode, diff, interpolation, event_stream, frames,
                   scene, removed, returned>>

-----------------------------------------------------------------------------
(* apply_rigid_body_user_changes: what the host wrote goes to the engine *)

\* The host writes the Transform of an entity.
set_transform(e, transform) ==
    /\ e \in DOMAIN scene
    /\ scene' = [scene EXCEPT ![e].transform = transform,
                              ![e].changed = @ \cup {"Transform"}]
    /\ last' = [Called("set::<Transform>", e, Ok(transform)) EXCEPT !.calls = last.calls]
    /\ UNCHANGED <<worlds, next_world_id, timestep_mode, diff, interpolation, event_stream,
                   frames, removed, returned>>

\* Changed<GlobalTransform>: transform propagation wrote the GlobalTransform of
\* the entity because its Transform, or that of an ancestor, was written.
RECURSIVE GlobalTransformChanged(_, _)
GlobalTransformChanged(sc, e) ==
    \/ "Transform" \in sc[e].changed
    \/ sc[e].parent # 0 /\ GlobalTransformChanged(sc, sc[e].parent)

\* RigidBody::set_body_type(status, true): a body that becomes fixed loses its
\* velocity, a body that becomes dynamic wakes up.
set_body_type(rb, status) ==
    IF rb.body_type = status THEN rb
    ELSE [rb EXCEPT !.body_type = status,
                    !.linvel = IF status = "Fixed" THEN ZERO ELSE @,
                    !.sleeping = IF status = "Dynamic" THEN FALSE ELSE @]

\* RigidBody::set_position(pos, true): the current and the next position.
set_position(rb, pos) ==
    [rb EXCEPT !.position = pos, !.next_position = None, !.sleeping = FALSE]

\* RigidBody::set_next_kinematic_position: where the next step moves a kinematic
\* body to; other bodies ignore it.
set_next_kinematic_position(rb, pos) ==
    IF rb.body_type = "KinematicPositionBased" THEN [rb EXCEPT !.next_position = Some(pos)]
    ELSE rb

\* RigidBody::set_linvel(linvel, true): fixed and position-based kinematic bodies
\* keep the velocity they have.
set_linvel(rb, linvel) ==
    IF rb.body_type \in {"Fixed", "KinematicPositionBased"} THEN rb
    ELSE [rb EXCEPT !.linvel = linvel, !.sleeping = FALSE]

\* The check that takes every propagated transform for a user edit.
TransformChangedAlways(force, handle, transform, last_transform_set) == TRUE

transform_changed_fn(force, handle, transform, last_transform_set) ==
    IF force THEN TRUE
    ELSE IF handle \in DOMAIN last_transform_set THEN last_transform_set[handle] # transform
    ELSE TRUE

\* What the loops over changed_sleeping, changed_rb_types, changed_transforms and
\* changed_velocities do to the body of one entity, with the body type changed
\* last.
BodyUserChangesTypeLast(rb, ent, transform_changed, pos) ==
    LET slept == IF "Sleeping" \in ent.changed /\ ent.sleeping # None
                 THEN IF ~ent.sleeping[1] /\ rb.sleeping
                      THEN [rb EXCEPT !.sleeping = FALSE]
                      ELSE IF ent.sleeping[1] /\ ~rb.sleeping
                           THEN [rb EXCEPT !.sleeping = TRUE, !.linvel = ZERO]
                           ELSE rb
                 ELSE rb
        moved == IF transform_changed
                 THEN IF slept.body_type = "KinematicPositionBased"
                      THEN set_next_kinematic_position(slept, pos)
                      ELSE set_position(slept, pos)
                 ELSE slept
        pushed == IF "Velocity" \in ent.changed /\ ent.velocity # None
                  THEN set_linvel(moved, ent.velocity[1])
                  ELSE moved
    IN IF "RigidBody" \in ent.changed THEN set_body_type(pushed, ent.rigid_body[1])
       ELSE pushed

\* What the loops over changed_sleeping, changed_rb_types, changed_transforms and
\* changed_velocities do to the body of one entity, in the order of the loops.
BodyUserChanges(rb, ent, transform_changed, pos) ==
    LET slept == IF "Sleeping" \in ent.changed /\ ent.sleeping # None
                 THEN IF ~ent.sleeping[1] /\ rb.sleeping
                      THEN [rb EXCEPT !.sleeping = FALSE]
                      ELSE IF ent.sleeping[1] /\ ~rb.sleeping
                           THEN [rb EXCEPT !.sleeping = TRUE, !.linvel = ZERO]
                           ELSE rb
                 ELSE rb
        typed == IF "RigidBody" \in ent.changed
                 THEN set_body_type(slept, ent.rigid_body[1])
                 ELSE slept
        moved == IF transform_changed
                 THEN IF typed.body_type = "KinematicPositionBased"
                      THEN set_next_kinematic_position(typed, pos)
                      ELSE set_position(typed, pos)
                 ELSE typed
    IN IF "Velocity" \in ent.changed /\ ent.velocity # None
       THEN set_linvel(moved, ent.velocity[1])
       ELSE moved

\* The loops for one entity of the four queries; each loop writes only to the
\* body, the cache entry and the interpolation state of the entity it visits, so
\* the loops are taken entity by entity.
UserChangesOf(st, sc, e, force) ==
    LET ent == sc[e]
        id == ent.link[1]
        handle == ent.handle[1]
        world == st.worlds[id]
        global_transform == GlobalTransform(sc, e)
        transform_changed ==
            /\ GlobalTransformChanged(sc, e)
            /\ transform_changed_fn(force, handle, global_transform,
                                    world.last_body_transform_set)
    IN [ worlds |->
           IF handle \in DOMAIN world.bodies
           THEN [st.worlds EXCEPT
                   ![id].bodies[handle] =
                       BodyUserChanges(@, ent, transform_changed,
                                       transform_to_iso(global_transform)),
                   ![id].last_body_transform_set =
                       IF transform_changed THEN MapInsert(@, handle, global_transform)
                       ELSE @]
           ELSE st.worlds,
         interp |->
           IF transform_changed /\ e \in DOMAIN st.interp
           THEN [st.interp EXCEPT ![e].start = None, ![e].end = None]
           ELSE st.interp ]

RECURSIVE UserChanges(_, _, _, _)
UserChanges(st, sc, todo, force) ==
    IF todo = {} THEN st
    ELSE UserChanges(UserChangesOf(st, sc, First(todo), force), sc, todo \ {First(todo)},
                     force)

\* The system apply_rigid_body_user_changes, force being
\* RapierConfiguration::force_update_from_transform_changes; it has then seen
\* every change made so far.
apply_rigid_body_user_changes(force) ==
    /\ \A e \in DOMAIN scene : InSyncVelQuery(scene, e) => scene[e].link[1] \in DOMAIN worlds
    /\ \E st \in {UserChanges([worlds |-> worlds, interp |-> interpolation], scene,
                              {e \in DOMAIN scene : InSyncVelQuery(scene, e)}, force)} :
          /\ worlds' = st.worlds
          /\ interpolation' = st.interp
    /\ scene' = [e \in DOMAIN scene |-> [scene[e] EXCEPT !.changed = {}]]
    /\ last' = [Called("apply_rigid_body_user_changes", -1, Ok(force))
                    EXCEPT !.calls = last.calls]
    /\ UNCHANGED <<next_world_id, timestep_mode, diff, event_stream, frames, removed, returned>>

-----------------------------------------------------------------------------
(* update_colliding_entities: CollidingEntities follows the collision events *)

\* EventWriter<CollisionEvent>::send, by the engine's flush or by a host system.
send_collision_event(event) ==
    /\ event_stream' = [event_stream EXCEPT !.collision = Append(@, event)]
    /\ last' = Called("send::<CollisionEvent>", -1, Ok(event))
    /\ UNCHANGED <<worlds, next_world_id, timestep_mode, diff, interpolation, frames, scene,
                   removed, returned>>

\* The mutant: Stopped takes entity2 out of entity1's set only.
CollisionEventAppliedOneSided(sc, event) ==
    LET with1 == IF sc[event.entity1].colliding # None
                 THEN [sc EXCEPT ![event.entity1].colliding =
                          Some(IF event.kind = "Started" THEN @[1] \cup {event.entity2}
                               ELSE @[1] \ {event.entity2})]
                 ELSE sc
    IN IF with1[event.entity2].colliding # None /\ event.kind = "Started"
       THEN [with1 EXCEPT ![event.entity2].colliding = Some(@[1] \cup {event.entity1})]
       ELSE with1

\* One arm of `match event.to_owned()`: each entity that has a CollidingEntities
\* gets the other inserted on Started and removed on Stopped.
CollisionEventApplied(sc, event) ==
    LET with1 == IF sc[event.entity1].colliding # None
                 THEN [sc EXCEPT ![event.entity1].colliding =
                          Some(IF event.kind = "Started" THEN @[1] \cup {event.entity2}
                               ELSE @[1] \ {event.entity2})]
                 ELSE sc
    IN IF with1[event.entity2].colliding # None
       THEN [with1 EXCEPT ![event.entity2].colliding =
                Some(IF event.kind = "Started" THEN @[1] \cup {event.entity1}
                     ELSE @[1] \ {event.entity1})]
       ELSE with1

\* `for event in collision_events.read()` over the events from the i-th on.
RECURSIVE CollisionEventsApplied(_, _, _)
CollisionEventsApplied(sc, events, i) ==
    IF i > Len(events) THEN sc
    ELSE CollisionEventsApplied(CollisionEventApplied(sc, events[i]), events, i + 1)

\* The system reads the events its reader has not seen yet.
update_colliding_entities ==
    /\ scene' = CollisionEventsApplied(scene, event_stream.collision, event_stream.read + 1)
    /\ event_stream' = [event_stream EXCEPT !.read = Len(event_stream.collision)]
    /\ last' = Called("update_colliding_entities", -1, Ok(None))
    /\ UNCHANGED <<worlds, next_world_id, timestep_mode, diff, interpolation, frames, removed,
                   returned>>

-----------------------------------------------------------------------------
(* Scenes after their bodies were created *)

\* The world of an entity that takes world 1 for the world of an untagged one.
LinkOfDefaultsToOne(sc, e) == IF sc[e].link # None THEN sc[e].link[1] ELSE 1

\* The world an entity's body is created in: its link, the default world without one.
LinkOf(sc, e) == IF sc[e].link # None THEN sc[e].link[1] ELSE DEFAULT_WORLD_ID

\* The entities init_rigid_bodies creates a body for in world w.
BodiesToCreate(sc, w) ==
    {e \in DOMAIN sc : sc[e].rigid_body # None /\ LinkOf(sc, e) = w}

\* The handle `bodies.insert(rb)` returns for the entity's body when the bodies of
\* the world are created in the order of the entities: the arena's next free index.
CreatedHandle(sc, e) ==
    Cardinality({other \in BodiesToCreate(sc, LinkOf(sc, e)) : other < e})

\* The body RigidBodyBuilder builds from the entity's components.
BuiltBody(sc, e) ==
    [ user_data |-> e,
      position |-> transform_to_iso(GlobalTransform(sc, e)),
      linvel |-> IF sc[e].velocity # None THEN sc[e].velocity[1] ELSE ZERO,
      sleeping |-> IF sc[e].sleeping # None THEN sc[e].sleeping[1] ELSE FALSE,
      enabled |-> ~sc[e].disabled,
      body_type |-> sc[e].rigid_body[1],
      next_position |-> None ]    \* the next kinematic position, when one was set

\* The entities init_colliders creates a collider for in world w.
CollidersToCreate(sc, w) ==
    {e \in DOMAIN sc : sc[e].collider /\ LinkOf(sc, e) = w}

\* The handle `colliders.insert(..)` returns for the entity's collider.
CreatedColliderHandle(sc, e) ==
    Cardinality({other \in CollidersToCreate(sc, LinkOf(sc, e)) : other < e})

\* collider_offset: the body the collider is attached to, that of the entity or
\* of its nearest ancestor that has one in the world.
RECURSIVE collider_offset(_, _, _)
collider_offset(sc, e2b, e) ==
    IF e \in DOMAIN e2b THEN Some(e2b[e])
    ELSE IF e \notin DOMAIN sc \/ sc[e].parent = 0 THEN None
    ELSE collider_offset(sc, e2b, sc[e].parent)

\* World w after init_rigid_bodies and init_colliders created the bodies and the
\* colliders of the scene in it.
PopulatedWorld(sc, w) ==
    [ RapierWorldDefault EXCEPT
        !.colliders = [h \in {CreatedColliderHandle(sc, e) : e \in CollidersToCreate(sc, w)} |->
                         LET e == CHOOSE e \in CollidersToCreate(sc, w) :
                                     CreatedColliderHandle(sc, e) = h
                         IN [ user_data |-> e,
                              parent |-> collider_offset(sc,
                                            [b \in BodiesToCreate(sc, w) |->
                                                CreatedHandle(sc, b)], e) ]],
        !.entity2collider = [e \in CollidersToCreate(sc, w) |-> CreatedColliderHandle(sc, e)],
        !.inserted_bodies = Cardinality(BodiesToCreate(sc, w)),
        !.inserted_colliders = Cardinality(CollidersToCreate(sc, w)),
        !.bodies = [h \in {CreatedHandle(sc, e) : e \in BodiesToCreate(sc, w)} |->
                      BuiltBody(sc, CHOOSE e \in BodiesToCreate(sc, w) :
                                        CreatedHandle(sc, e) = h)],
        !.entity2body = [e \in BodiesToCreate(sc, w) |-> CreatedHandle(sc, e)],
        !.last_body_transform_set =
            [h \in {CreatedHandle(sc, e) : e \in BodiesToCreate(sc, w)} |->
               GlobalTransform(sc, CHOOSE e \in BodiesToCreate(sc, w) :
                                       CreatedHandle(sc, e) = h)] ]

\* The scene after init_rigid_bodies: handle and link components inserted.
Spawned(sc) ==
    [e \in DOMAIN sc |->
        [sc[e] EXCEPT
           !.handle = IF sc[e].rigid_body # None THEN Some(CreatedHandle(sc, e)) ELSE @,
           !.link = IF sc[e].rigid_body # None THEN Some(LinkOf(sc, e)) ELSE @,
           !.collider_handle = IF sc[e].collider THEN Some(CreatedColliderHandle(sc, e))
                               ELSE @]]

\* The state after startup and the first run of init_rigid_bodies on the authored
\* scene sc, with a world registered for every id 0..n-1 of `handlers`, which
\* tells the worlds that were given an event handler of the host's own, and the
\* entities of `tracked` carrying a TransformInterpolation component.
InitScene(sc, handlers, tracked) ==
    /\ worlds = [w \in DOMAIN handlers |->
                   [PopulatedWorld(sc, w) EXCEPT !.event_handler = handlers[w]]]
    /\ next_world_id = Cardinality(DOMAIN handlers)
    /\ timestep_mode \in TimestepModes
    /\ diff = 0
    /\ interpolation = [e \in tracked |->
                          [handle |-> CreatedHandle(sc, e), start |-> None, end |-> None]]
    /\ event_stream = [collision |-> <<>>, contact_force |-> <<>>, read |-> 0]
    /\ frames = 0
    /\ scene = Spawned(sc)
    /\ authored = sc
    /\ removed = NoneRemoved
    /\ returned = [i \in 1..(Cardinality(DOMAIN handlers) - 1) |-> i]
    /\ last = Called("init_rigid_bodies", -1, Ok(None))

-----------------------------------------------------------------------------

\* The registry operations that change the registry.
NextWorlds ==
    \/ \E world \in InputWorlds : add_world(world)
    \/ \E world_id \in WorldIds : remove_world(world_id)

\* The registry operations that take a world id and change nothing.
NextLookup ==
    \/ \E world_id \in WorldIds : get_world(world_id)
    \/ \E world_id \in WorldIds : get_world_mut(world_id)
    \/ \E world_id \in WorldIds : entity2body(world_id)
    \/ \E world_id \in WorldIds : entity2collider(world_id)
    \/ \E world_id \in WorldIds : entity2impulse_joint(world_id)
    \/ \E world_id \in WorldIds : entity2multibody_joint(world_id)
    \/ \E op \in QueryOps, world_id \in WorldIds : query(op, world_id)
    \/ \E world_id \in WorldIds : move_shape(world_id)
    \/ \E world_id \in WorldIds :
         propagate_modified_body_positions_to_colliders_for_world(world_id)
    \/ \E e \in Entities, world_id \in WorldIds : collider_parent_for_world(e, world_id)
    \/ \E world_id \in WorldIds : rigid_body_entity_in_world(0, world_id)

\* One host update.
NextFrame ==
    \E elapsed \in ElapsedValues, active \in BOOLEAN : step_simulation(elapsed, active)

Next == (NextWorlds \/ NextLookup \/ NextFrame) /\ UNCHANGED <<stage, authored>>

Spec == Init /\ [][Next]_vars

\* The registry alone: no host update runs.
NextRegistry == (NextWorlds \/ NextLookup) /\ UNCHANGED <<stage, authored>>

InitRegistry == Init /\ timestep_mode = DefaultTimestepMode

SpecRegistry == InitRegistry /\ [][NextRegistry]_vars

\* The stepper: the worlds are registered at startup, before the first host update,
\* and the lookups, which change nothing, are left out.
setup_world(world) ==
    /\ frames = 0
    /\ Cardinality(DOMAIN worlds) < MaxSteppedWorlds
    /\ add_world(world)

NextStepper ==
    ((\E world \in InputWorlds : setup_world(world)) \/ NextFrame) /\ UNCHANGED <<stage, authored>>

SpecStepper == Init /\ [][NextStepper]_vars

-----------------------------------------------------------------------------
(* Removal of colliders and bodies, and the events of a step *)

\* Commands::despawn of an entity without children: its components are removed,
\* and RemovedComponents reports the handle components it had.
despawn(e) ==
    /\ e \in DOMAIN scene
    /\ Children(scene, e) = {}
    /\ scene' = MapRemove(scene, e)
    /\ interpolation' = [k \in DOMAIN interpolation \ {e} |-> interpolation[k]]
    /\ removed' = [bodies |-> removed.bodies \cup
                               (IF scene[e].handle # None THEN {e} ELSE {}),
                   colliders |-> removed.colliders \cup
                                  (IF scene[e].collider_handle # None THEN {e} ELSE {}),
                   impulse_joints |-> removed.impulse_joints \cup
                                  (IF scene[e].impulse_joint_handle # None THEN {e} ELSE {}),
                   multibody_joints |-> removed.multibody_joints \cup
                                  (IF scene[e].multibody_joint_handle # None THEN {e} ELSE {})]
    /\ last' = Called("despawn", e, Ok(None))
    /\ UNCHANGED <<worlds, next_world_id, timestep_mode, diff, event_stream, frames, returned>>

\* EntityCommands::remove::<Collider>(): the entity keeps its RapierColliderHandle.
remove_collider(e) ==
    /\ e \in DOMAIN scene
    /\ scene[e].collider
    /\ scene' = [scene EXCEPT ![e].collider = FALSE]
    /\ last' = Called("remove::<Collider>", e, Ok(None))
    /\ UNCHANGED <<worlds, next_world_id, timestep_mode, diff, interpolation, event_stream,
                   frames, removed, returned>>

\* EntityCommands::remove::<RapierColliderHandle>(): the entity keeps its Collider.
remove_collider_handle(e) ==
    /\ e \in DOMAIN scene
    /\ scene[e].collider_handle # None
    /\ scene' = [scene EXCEPT ![e].collider_handle = None]
    /\ removed' = [removed EXCEPT !.colliders = @ \cup {e}]
    /\ last' = Called("remove::<RapierColliderHandle>", e, Ok(None))
    /\ UNCHANGED <<worlds, next_world_id, timestep_mode, diff, interpolation, event_stream,
                   frames, returned>>

\* The pairs of colliders of a world, the lower handle first.
ColliderPairs(world) ==
    {p \in (DOMAIN world.colliders) \X (DOMAIN world.colliders) : p[1] < p[2]}

\* The bodies were moved so that the shapes of exactly these pairs overlap: what
\* the narrow phase will find in the next step.
move_colliders(world_id, pairs) ==
    /\ world_id \in DOMAIN worlds
    /\ pairs # worlds[world_id].overlapping
    /\ worlds' = [worlds EXCEPT ![world_id].overlapping = pairs]
    /\ last' = Called("move_colliders", world_id, Ok(None))
    /\ UNCHANGED <<next_world_id, timestep_mode, diff, interpolation, event_stream, frames,
                   scene, removed, returned>>

\* A call of RapierWorld::step_simulation on one world by the host's own code.
rapier_world_step_simulation(world_id, create_bevy_events, elapsed, has_query) ==
    /\ frames < MaxFrames
    /\ world_id \in DOMAIN worlds
    /\ \E before \in {StepState(worlds[world_id], create_bevy_events, diff, interpolation)} :
       \E after \in {world_step_simulation(before, timestep_mode, elapsed, has_query)} :
          /\ worlds' = [worlds EXCEPT ![world_id] = after.world]
          /\ diff' = after.diff
          /\ interpolation' = after.interp
          /\ last' = [op |-> "RapierWorld::step_simulation", world_id |-> world_id,
                      result |-> Ok(None),
                      calls |-> (world_id :> CallRecord(world_id, timestep_mode, elapsed,
                                                        before, after))]
    /\ frames' = frames + 1
    /\ UNCHANGED <<next_world_id, timestep_mode, event_stream, scene, removed, returned>>

\* The colliders init_colliders creates: one for every entity with a Collider and
\* without a RapierColliderHandle, in ascending order of the entities.
RECURSIVE InitColliders(_, _, _)
InitColliders(ws, sc, todo) ==
    IF todo = <<>> THEN [worlds |-> ws, scene |-> sc]
    ELSE LET e == Head(todo)
             id == LinkOf(sc, e)
             world == ws[id]
             handle == world.inserted_colliders
             collider == [user_data |-> e,
                          parent |-> collider_offset(sc, world.entity2body, e)]
         IN InitColliders(
               [ws EXCEPT ![id] =
                   [world EXCEPT !.colliders = MapInsert(@, handle, collider),
                                 !.inserted_colliders = @ + 1,
                                 !.entity2collider = MapInsert(@, e, handle)]],
               [sc EXCEPT ![e].collider_handle = Some(handle)],
               Tail(todo))

init_colliders ==
    /\ \A e \in DOMAIN scene : LinkOf(scene, e) \in DOMAIN worlds
    /\ \E made \in {InitColliders(worlds, scene,
                       Ascending({e \in DOMAIN scene :
                                    scene[e].collider /\ scene[e].collider_handle = None}))} :
          /\ worlds' = made.worlds
          /\ scene' = made.scene
    /\ last' = Called("init_colliders", -1, Ok(None))
    /\ UNCHANGED <<next_world_id, timestep_mode, diff, interpolation, event_stream, frames,
                   removed, returned>>

\* find_item_and_world that looks for colliders from the other end of the
\* iteration than for bodies.
RECURSIVE FindItemAndWorldCollidersFromEnd(_, _, _, _, _)
FindItemAndWorldCollidersFromEnd(ws, order, i, map, e) ==
    IF i > Len(order) THEN None
    ELSE LET w == IF map = "entity2collider" THEN order[Len(order) + 1 - i] ELSE order[i]
         IN IF e \in DOMAIN ws[w][map] THEN Some(w)
            ELSE FindItemAndWorldCollidersFromEnd(ws, order, i + 1, map, e)

\* find_item_and_world: the first world of the iteration that has the entity as a
\* key of the map, None when no world has.
RECURSIVE find_item_and_world(_, _, _, _, _)
find_item_and_world(ws, order, i, map, e) ==
    IF i > Len(order) THEN None
    ELSE IF e \in DOMAIN ws[order[i]][map] THEN Some(order[i])
    ELSE find_item_and_world(ws, order, i + 1, map, e)

\* remove_joints_attached_to_rigid_body of either joint set.
JointsNotAttachedTo(joints, handle) ==
    [j \in {j \in DOMAIN joints : handle \notin {joints[j].body1, joints[j].body2}} |->
        joints[j]]

\* RigidBodySet::remove(handle, .., false): the body goes with the joints attached
\* to it; its colliders stay without a parent.
BodiesRemove(world, handle) ==
    [world EXCEPT
       !.bodies = MapRemove(@, handle),
       !.colliders = [h \in DOMAIN @ |->
                        IF @[h].parent = Some(handle) THEN [@[h] EXCEPT !.parent = None]
                        ELSE @[h]],
       !.impulse_joints = JointsNotAttachedTo(@, handle),
       !.multibody_joints = JointsNotAttachedTo(@, handle)]

\* ColliderSet::remove(handle, .., true)
CollidersRemove(world, handle) ==
    [world EXCEPT !.colliders = MapRemove(@, handle),
                  !.removed_colliders = @ \cup {handle}]

\* The loops over removed_bodies and orphan_bodies that leave the last-transform
\* cache as it is.
RECURSIVE SyncRemovedBodiesKeepCache(_, _, _)
SyncRemovedBodiesKeepCache(ws, order, todo) ==
    IF todo = <<>> THEN ws
    ELSE LET e == Head(todo)
             found == find_item_and_world(ws, order, 1, "entity2body", e)
         IN IF found = None THEN SyncRemovedBodiesKeepCache(ws, order, Tail(todo))
            ELSE LET world == ws[found[1]]
                     handle == world.entity2body[e]
                 IN SyncRemovedBodiesKeepCache(
                       [ws EXCEPT ![found[1]] =
                           BodiesRemove([world EXCEPT !.entity2body = MapRemove(@, e)],
                                        handle)],
                       order, Tail(todo))

\* The body of the loops over removed_bodies and orphan_bodies.
RECURSIVE SyncRemovedBodies(_, _, _)
SyncRemovedBodies(ws, order, todo) ==
    IF todo = <<>> THEN ws
    ELSE LET e == Head(todo)
             found == find_item_and_world(ws, order, 1, "entity2body", e)
         IN IF found = None THEN SyncRemovedBodies(ws, order, Tail(todo))
            ELSE LET world == ws[found[1]]
                     handle == world.entity2body[e]
                 IN SyncRemovedBodies(
                       [ws EXCEPT ![found[1]] =
                           BodiesRemove(
                               [world EXCEPT
                                  !.entity2body = MapRemove(@, e),
                                  !.last_body_transform_set =
                                      [h \in DOMAIN @ \ {handle} |-> @[h]]],
                               handle)],
                       order, Tail(todo))

\* The body of the loops over removed_colliders and orphan_colliders.
RECURSIVE SyncRemovedColliders(_, _, _)
SyncRemovedColliders(ws, order, todo) ==
    IF todo = <<>> THEN ws
    ELSE LET e == Head(todo)
             found == find_item_and_world(ws, order, 1, "entity2collider", e)
         IN IF found = None THEN SyncRemovedColliders(ws, order, Tail(todo))
            ELSE LET world == ws[found[1]]
                     handle == world.entity2collider[e]
                 IN SyncRemovedColliders(
                       [ws EXCEPT ![found[1]] =
                           [CollidersRemove([world EXCEPT !.entity2collider = MapRemove(@, e)],
                                            handle)
                              EXCEPT !.deleted_colliders = MapInsert(@, handle, e)]],
                       order, Tail(todo))

\* RapierWorld::collider_parent: the entity of the body the entity's collider is
\* attached to, looked up through entity2collider.
world_collider_parent(world, entity) ==
    IF entity \notin DOMAIN world.entity2collider THEN None
    ELSE LET h == world.entity2collider[entity]
         IN IF h \notin DOMAIN world.colliders \/ world.colliders[h].parent = None THEN None
            ELSE world_rigid_body_entity(world, world.colliders[h].parent[1])

\* RapierContext::rigid_body_entity with the worlds iterated in `order`.
RECURSIVE rigid_body_entity_in_order(_, _, _, _)
rigid_body_entity_in_order(ws, order, i, handle) ==
    IF i > Len(order) THEN None
    ELSE IF world_rigid_body_entity(ws[order[i]], handle) # None
         THEN world_rigid_body_entity(ws[order[i]], handle)
         ELSE rigid_body_entity_in_order(ws, order, i + 1, handle)

\* RapierContext::collider_parent with the worlds iterated in `order`.
RECURSIVE context_collider_parent(_, _, _, _)
context_collider_parent(ws, order, i, entity) ==
    IF i > Len(order) THEN None
    ELSE LET world == ws[order[i]]
             h == IF entity \in DOMAIN world.entity2collider
                  THEN world.entity2collider[entity] ELSE -1
             parent == IF h \in DOMAIN world.colliders /\ world.colliders[h].parent # None
                       THEN rigid_body_entity_in_order(ws, order, 1,
                                                       world.colliders[h].parent[1])
                       ELSE None
         IN IF parent # None THEN parent
            ELSE context_collider_parent(ws, order, i + 1, entity)

\* The MassModifiedEvents the loop over removed_colliders sends: the parent is
\* asked of the world after find_item_and_world took the entity out of
\* entity2collider.
RECURSIVE MassModifiedOfRemoved(_, _, _)
MassModifiedOfRemoved(ws, order, todo) ==
    IF todo = <<>> THEN <<>>
    ELSE LET e == Head(todo)
             found == find_item_and_world(ws, order, 1, "entity2collider", e)
             parent == IF found = None THEN None
                       ELSE world_collider_parent(
                               [ws[found[1]] EXCEPT !.entity2collider = MapRemove(@, e)], e)
         IN (IF parent # None THEN <<parent[1]>> ELSE <<>>)
               \o MassModifiedOfRemoved(SyncRemovedColliders(ws, order, <<e>>), order,
                                        Tail(todo))

\* The MassModifiedEvents the loop over orphan_colliders sends: the parent is
\* asked of the context before the entity is taken out of entity2collider.
RECURSIVE MassModifiedOfOrphans(_, _, _)
MassModifiedOfOrphans(ws, order, todo) ==
    IF todo = <<>> THEN <<>>
    ELSE LET e == Head(todo)
             parent == context_collider_parent(ws, order, 1, e)
         IN (IF parent # None THEN <<parent[1]>> ELSE <<>>)
               \o MassModifiedOfOrphans(SyncRemovedColliders(ws, order, <<e>>), order,
                                        Tail(todo))

\* What sync_removals sends to EventWriter<MassModifiedEvent>.
MassModifiedSent(ws, order, sc, rm) ==
    LET bodies_done == SyncRemovedBodies(ws, order,
                          Ascending(rm.bodies) \o Ascending({e \in DOMAIN sc :
                              sc[e].handle # None /\ sc[e].rigid_body = None}))
    IN MassModifiedOfRemoved(bodies_done, order, Ascending(rm.colliders))
          \o MassModifiedOfOrphans(
                SyncRemovedColliders(bodies_done, order, Ascending(rm.colliders)), order,
                Ascending({e \in DOMAIN sc : sc[e].collider_handle # None /\ ~sc[e].collider}))

\* The body of the loops over the removed and the orphan joints of one kind:
\* `map` is the index and `set` the engine's joint set.
RECURSIVE SyncRemovedJoints(_, _, _, _, _)
SyncRemovedJoints(ws, order, todo, map, set) ==
    IF todo = <<>> THEN ws
    ELSE LET e == Head(todo)
             found == find_item_and_world(ws, order, 1, map, e)
         IN IF found = None THEN SyncRemovedJoints(ws, order, Tail(todo), map, set)
            ELSE LET world == ws[found[1]]
                     handle == world[map][e]
                 IN SyncRemovedJoints(
                       [ws EXCEPT ![found[1]] =
                           [world EXCEPT ![map] = MapRemove(@, e),
                                         ![set] = [j \in DOMAIN @ \ {handle} |-> @[j]]]],
                       order, Tail(todo), map, set)

\* Query<Entity, (With<RapierImpulseJointHandle>, Without<ImpulseJoint>)>
orphan_impulse_joints(sc) ==
    {e \in DOMAIN sc : sc[e].impulse_joint_handle # None /\ sc[e].impulse_joint = None}

\* Query<Entity, (With<RapierMultibodyJointHandle>, Without<MultibodyJoint>)>
orphan_multibody_joints(sc) ==
    {e \in DOMAIN sc : sc[e].multibody_joint_handle # None /\ sc[e].multibody_joint = None}

\* Query<Entity, (With<RapierRigidBodyHandle>, Without<RigidBody>)>
orphan_bodies(sc) == {e \in DOMAIN sc : sc[e].handle # None /\ sc[e].rigid_body = None}

\* Query<Entity, (With<RapierColliderHandle>, Without<Collider>)>
orphan_colliders(sc) == {e \in DOMAIN sc : sc[e].collider_handle # None /\ ~sc[e].collider}

\* sync_removals: bodies, then colliders, impulse joints and multibody joints;
\* the handle components it removes from the orphans are what RemovedComponents
\* reports next.
sync_removals ==
    /\ \E order \in Orders(DOMAIN worlds) :
        /\ last' = Called("sync_removals", -1,
                          Ok(MassModifiedSent(worlds, order, scene, removed)))
        /\ worlds' =
             SyncRemovedJoints(
                SyncRemovedJoints(
                   SyncRemovedColliders(
                      SyncRemovedBodies(worlds, order,
                          Ascending(removed.bodies) \o Ascending(orphan_bodies(scene))),
                      order,
                      Ascending(removed.colliders) \o Ascending(orphan_colliders(scene))),
                   order,
                   Ascending(removed.impulse_joints)
                      \o Ascending(orphan_impulse_joints(scene)),
                   "entity2impulse_joint", "impulse_joints"),
                order,
                Ascending(removed.multibody_joints)
                   \o Ascending(orphan_multibody_joints(scene)),
                "entity2multibody_joint", "multibody_joints")
    /\ scene' = [e \in DOMAIN scene |->
                   [scene[e] EXCEPT
                      !.handle = IF e \in orphan_bodies(scene) THEN None ELSE @,
                      !.collider_handle = IF e \in orphan_colliders(scene) THEN None ELSE @,
                      !.impulse_joint_handle =
                          IF e \in orphan_impulse_joints(scene) THEN None ELSE @,
                      !.multibody_joint_handle =
                          IF e \in orphan_multibody_joints(scene) THEN None ELSE @]]
    /\ removed' = [bodies |-> orphan_bodies(scene), colliders |-> orphan_colliders(scene),
                   impulse_joints |-> orphan_impulse_joints(scene),
                   multibody_joints |-> orphan_multibody_joints(scene)]
    /\ UNCHANGED <<next_world_id, timestep_mode, diff, interpolation, event_stream, frames,
                   returned>>

-----------------------------------------------------------------------------
(* Moving entities between worlds *)

\* The host writes the PhysicsWorld component of an entity.
set_physics_world(e, world_id) ==
    /\ e \in DOMAIN scene
    /\ scene' = [scene EXCEPT ![e].link = Some(world_id), ![e].link_changed = TRUE]
    /\ last' = Called("insert::<PhysicsWorld>", e, Ok(world_id))
    /\ UNCHANGED <<worlds, next_world_id, timestep_mode, diff, interpolation, event_stream,
                   frames, removed, returned>>

\* The commands a system has queued: the PhysicsWorld values to insert and the
\* entities whose handle components are to be removed.
NoCommands == [insert |-> EmptyMap, remove |-> {}]

\* The update without the loop over the children: only the entities of todo are
\* retagged and stripped of their handle components.
RECURSIVE ApplyWorldUpdateToEntityOnly(_, _, _, _)
ApplyWorldUpdateToEntityOnly(sc, ws, cmds, todo) ==
    IF todo = <<>> THEN cmds
    ELSE LET entity == Head(todo)[1]
             new_world == Head(todo)[2]
             tagged == sc[entity].link # None
             insert == IF ~tagged \/ sc[entity].link[1] # new_world
                       THEN MapInsert(cmds.insert, entity, new_world)
                       ELSE cmds.insert
         IN IF /\ tagged
               /\ new_world \in DOMAIN ws
               /\ entity \in DOMAIN ws[new_world].entity2body
            THEN ApplyWorldUpdateToEntityOnly(sc, ws, [cmds EXCEPT !.insert = insert],
                                              Tail(todo))
            ELSE ApplyWorldUpdateToEntityOnly(
                    sc, ws, [insert |-> insert, remove |-> cmds.remove \cup {entity}],
                    Tail(todo))

\* recursively_apply_world_update for the pairs <<entity, new_world>> of todo, the
\* children of an entity before the entities after it; the queries read the
\* scene as it was when the system started.
RECURSIVE recursively_apply_world_update(_, _, _, _)
recursively_apply_world_update(sc, ws, cmds, todo) ==
    IF todo = <<>> THEN cmds
    ELSE LET entity == Head(todo)[1]
             new_world == Head(todo)[2]
             tagged == sc[entity].link # None
             insert == IF ~tagged \/ sc[entity].link[1] # new_world
                       THEN MapInsert(cmds.insert, entity, new_world)
                       ELSE cmds.insert
             children == Ascending(Children(sc, entity))
         IN IF /\ tagged
               /\ new_world \in DOMAIN ws
               /\ entity \in DOMAIN ws[new_world].entity2body
            THEN recursively_apply_world_update(sc, ws, [cmds EXCEPT !.insert = insert],
                                                Tail(todo))
            ELSE recursively_apply_world_update(
                    sc, ws,
                    [insert |-> insert, remove |-> cmds.remove \cup {entity}],
                    [i \in 1..Len(children) |-> <<children[i], new_world>>] \o Tail(todo))

\* The commands apply_changing_worlds queues: one recursion for every entity
\* whose PhysicsWorld was added or changed.
ApplyChangingWorldsCommands(sc, ws) ==
    LET changed == Ascending({e \in DOMAIN sc : sc[e].link # None /\ sc[e].link_changed})
    IN recursively_apply_world_update(
          sc, ws, NoCommands,
          [i \in 1..Len(changed) |-> <<changed[i], sc[changed[i]].link[1]>>])

\* apply_changing_worlds, with its commands applied when it has run.
apply_changing_worlds ==
    /\ \E cmds \in {ApplyChangingWorldsCommands(scene, worlds)} :
          /\ scene' = [e \in DOMAIN scene |->
                         [scene[e] EXCEPT
                            !.link = IF e \in DOMAIN cmds.insert THEN Some(cmds.insert[e])
                                     ELSE @,
                            !.link_changed = e \in DOMAIN cmds.insert,
                            !.handle = IF e \in cmds.remove THEN None ELSE @,
                            !.collider_handle = IF e \in cmds.remove THEN None ELSE @,
                            !.impulse_joint_handle =
                                IF e \in cmds.remove THEN None ELSE @,
                            !.multibody_joint_handle =
                                IF e \in cmds.remove THEN None ELSE @]]
          /\ removed' =
                [removed EXCEPT
                   !.bodies = @ \cup {e \in cmds.remove : scene[e].handle # None},
                   !.colliders = @ \cup {e \in cmds.remove : scene[e].collider_handle # None},
                   !.impulse_joints =
                       @ \cup {e \in cmds.remove : scene[e].impulse_joint_handle # None},
                   !.multibody_joints =
                       @ \cup {e \in cmds.remove : scene[e].multibody_joint_handle # None}]
    /\ last' = Called("apply_changing_worlds", -1, Ok(None))
    /\ UNCHANGED <<worlds, next_world_id, timestep_mode, diff, interpolation, event_stream,
                   frames, returned>>

\* The bodies systems_old::init_rigid_bodies creates: one for every entity with a
\* RigidBody and without a RapierRigidBodyHandle, in ascending order of the
\* entities, each in the world of its PhysicsWorld.
RECURSIVE InitRigidBodies(_, _, _)
InitRigidBodies(ws, sc, todo) ==
    IF todo = <<>> THEN [worlds |-> ws, scene |-> sc]
    ELSE LET e == Head(todo)
             id == LinkOf(sc, e)
             world == ws[id]
             handle == world.inserted_bodies
         IN InitRigidBodies(
               [ws EXCEPT ![id] =
                   [world EXCEPT
                      !.bodies = MapInsert(@, handle, BuiltBody(sc, e)),
                      !.inserted_bodies = @ + 1,
                      !.entity2body = MapInsert(@, e, handle),
                      !.last_body_transform_set =
                          MapInsert(@, handle, GlobalTransform(sc, e))]],
               [sc EXCEPT ![e].handle = Some(handle)],
               Tail(todo))

init_rigid_bodies ==
    /\ \A e \in DOMAIN scene : LinkOf(scene, e) \in DOMAIN worlds
    /\ \E made \in {InitRigidBodies(worlds, scene,
                       Ascending({e \in DOMAIN scene :
                                    scene[e].rigid_body # None /\ scene[e].handle = None}))} :
          /\ worlds' = made.worlds
          /\ scene' = made.scene
    /\ last' = Called("init_rigid_bodies", -1, Ok(None))
    /\ UNCHANGED <<next_world_id, timestep_mode, diff, interpolation, event_stream, frames,
                   removed, returned>>

-----------------------------------------------------------------------------
(* init_joints: joint components become joints of the engine *)

\* The host inserts an ImpulseJoint whose parent is the entity `parent`.
insert_impulse_joint(e, parent) ==
    /\ e \in DOMAIN scene
    /\ scene[e].impulse_joint = None
    /\ scene' = [scene EXCEPT ![e].impulse_joint = Some(parent)]
    /\ last' = Called("insert::<ImpulseJoint>", e, Ok(parent))
    /\ UNCHANGED <<worlds, next_world_id, timestep_mode, diff, interpolation, event_stream,
                   frames, removed, returned>>

\* The host inserts a MultibodyJoint whose parent is the entity `parent`.
insert_multibody_joint(e, parent) ==
    /\ e \in DOMAIN scene
    /\ scene[e].multibody_joint = None
    /\ scene' = [scene EXCEPT ![e].multibody_joint = Some(parent)]
    /\ last' = Called("insert::<MultibodyJoint>", e, Ok(parent))
    /\ UNCHANGED <<worlds, next_world_id, timestep_mode, diff, interpolation, event_stream,
                   frames, removed, returned>>

\* The bodies of the multibody the bodies of `links` are links of.
RECURSIVE MultibodyLinks(_, _)
MultibodyLinks(joints, links) ==
    LET more == links
                \cup {joints[j].body1 : j \in {j \in DOMAIN joints : joints[j].body2 \in links}}
                \cup {joints[j].body2 : j \in {j \in DOMAIN joints : joints[j].body1 \in links}}
    IN IF more = links THEN links ELSE MultibodyLinks(joints, more)

\* The mutant: an insertion that never finds a loop.
MultibodyJointsInsertUnchecked(joints, body1, body2) == Some(body2)

\* MultibodyJointSet::insert: None when the two bodies are links of one multibody
\* or body2 is not the root of its own; the handle of the joint is that of body2.
MultibodyJointsInsert(joints, body1, body2) ==
    IF \/ body2 \in MultibodyLinks(joints, {body1})
       \/ \E j \in DOMAIN joints : joints[j].body2 = body2
    THEN None
    ELSE Some(body2)

\* `while target.is_none()`: the body of the entity or of its nearest ancestor.
RECURSIVE ImpulseJointTarget(_, _, _)
ImpulseJointTarget(world, sc, body_entity) ==
    IF body_entity \in DOMAIN world.entity2body THEN Some(world.entity2body[body_entity])
    ELSE IF body_entity \in DOMAIN sc /\ sc[body_entity].parent # 0
         THEN ImpulseJointTarget(world, sc, sc[body_entity].parent)
         ELSE None

\* `for (entity, joint, world_within) in impulse_joints.iter()`
RECURSIVE InitImpulseJoints(_, _, _)
InitImpulseJoints(ws, sc, todo) ==
    IF todo = <<>> THEN [worlds |-> ws, scene |-> sc]
    ELSE LET entity == Head(todo)
             id == LinkOf(sc, entity)
             world == ws[id]
             target == ImpulseJointTarget(world, sc, entity)
             joint_parent == sc[entity].impulse_joint[1]
         IN IF target # None /\ joint_parent \in DOMAIN world.entity2body
            THEN LET handle == world.inserted_impulse_joints
                 IN InitImpulseJoints(
                       [ws EXCEPT ![id] =
                           [world EXCEPT
                              !.impulse_joints =
                                  MapInsert(@, handle,
                                            [body1 |-> world.entity2body[joint_parent],
                                             body2 |-> target[1]]),
                              !.inserted_impulse_joints = @ + 1,
                              !.entity2impulse_joint = MapInsert(@, entity, handle)]],
                       [sc EXCEPT ![entity].impulse_joint_handle = Some(handle)],
                       Tail(todo))
            ELSE InitImpulseJoints(ws, sc, Tail(todo))

\* `for (entity, joint, world_within) in multibody_joints.iter()`
RECURSIVE InitMultibodyJoints(_, _, _)
InitMultibodyJoints(ws, sc, todo) ==
    IF todo = <<>> THEN [worlds |-> ws, scene |-> sc]
    ELSE LET entity == Head(todo)
             id == LinkOf(sc, entity)
             world == ws[id]
             joint_parent == sc[entity].multibody_joint[1]
         IN IF entity \in DOMAIN world.entity2body /\ joint_parent \in DOMAIN world.entity2body
            THEN LET source == world.entity2body[joint_parent]
                     target == world.entity2body[entity]
                     inserted == MultibodyJointsInsert(world.multibody_joints, source, target)
                 IN IF inserted # None
                    THEN InitMultibodyJoints(
                            [ws EXCEPT ![id] =
                                [world EXCEPT
                                   !.multibody_joints =
                                       MapInsert(@, inserted[1],
                                                 [body1 |-> source, body2 |-> target]),
                                   !.entity2multibody_joint =
                                       MapInsert(@, entity, inserted[1])]],
                            [sc EXCEPT ![entity].multibody_joint_handle = Some(inserted[1])],
                            Tail(todo))
                    ELSE InitMultibodyJoints(ws, sc, Tail(todo))
            ELSE InitMultibodyJoints(ws, sc, Tail(todo))

\* init_joints: the impulse joints, then the multibody joints, each query in an
\* order of its own; the handle components are inserted when it has run.
init_joints ==
    /\ \A e \in DOMAIN scene : LinkOf(scene, e) \in DOMAIN worlds
    /\ \E impulse_order \in Orders({e \in DOMAIN scene : /\ scene[e].impulse_joint # None
                                                         /\ scene[e].impulse_joint_handle = None}) :
       \E multibody_order \in
             Orders({e \in DOMAIN scene : /\ scene[e].multibody_joint # None
                                          /\ scene[e].multibody_joint_handle = None}) :
          LET impulse == InitImpulseJoints(worlds, scene, impulse_order)
              made == InitMultibodyJoints(impulse.worlds, impulse.scene, multibody_order)
          IN /\ worlds' = made.worlds
             /\ scene' = made.scene
    /\ last' = Called("init_joints", -1, Ok(None))
    /\ UNCHANGED <<next_world_id, timestep_mode, diff, interpolation, event_stream, frames,
                   removed, returned>>

-----------------------------------------------------------------------------
(* Specifications of the frame *)

\* Bodies at rest with a collider each: entity 1 in world 0, the others in world
\* 0 or world 1.
EventScenes ==
    {sc \in [1..MaxSceneEntities ->
                {WithCollider(EntityComponents(0, TransformIDENTITY, None, Some("Dynamic"),
                                               FALSE, None, link)) :
                    link \in {None, Some(1)}}] :
        sc[1].link = None}

\* Interpolated stepping at the authored speed, which runs no step, one step or
\* several steps of MaxSubsteps sub-steps in a host update.
InitEvents ==
    /\ \E sc \in EventScenes : \E handler \in BOOLEAN :
          InitScene(sc, [w \in 0..1 |-> handler /\ w = DEFAULT_WORLD_ID], {})
    /\ stage = "Update"
    /\ timestep_mode.kind = "Interpolated"
    /\ timestep_mode.time_scale = 1
    /\ timestep_mode.substeps = MaxSubsteps

\* Frames in which no time has passed, and frames as long as they get.
EventElapsedValues == {0, MaxElapsedUnits * TimeUnit}

\* What the host's systems do between two runs of the physics schedule.
UpdateStage ==
    /\ stage = "Update"
    /\ \/ \E e \in 1..MaxSceneEntities : despawn(e)
       \/ \E e \in 1..MaxSceneEntities : remove_collider(e)
       \/ \E e \in 1..MaxSceneEntities : remove_collider_handle(e)
       \/ \E world_id \in DOMAIN worlds :
          \E pairs \in SUBSET ColliderPairs(worlds[world_id]) :
             move_colliders(world_id, pairs)
       \/ \E world_id \in DOMAIN worlds, create_bevy_events \in BOOLEAN,
             elapsed \in EventElapsedValues :
             rapier_world_step_simulation(world_id, create_bevy_events, elapsed, TRUE)
    /\ stage' = "Update"
    /\ UNCHANGED authored

\* PhysicsSet::SyncBackend: init_colliders, then sync_removals.
InitCollidersStage ==
    /\ stage = "Update"
    /\ frames < MaxFrames
    /\ init_colliders
    /\ stage' = "SyncRemovals"
    /\ UNCHANGED authored

SyncRemovalsStage ==
    /\ stage = "SyncRemovals"
    /\ sync_removals
    /\ stage' = "RunStep"
    /\ UNCHANGED authored

\* PhysicsSet::StepSimulation
RunStepStage ==
    /\ stage = "RunStep"
    /\ \E elapsed \in EventElapsedValues, active \in BOOLEAN :
          step_simulation(elapsed, active)
    /\ stage' = "Update"
    /\ UNCHANGED authored

\* The host steps the context itself instead, which consumes it.
ContextStepStage ==
    /\ stage = "RunStep"
    /\ \E elapsed \in EventElapsedValues, events \in BOOLEAN :
          context_step_simulation(elapsed, events, TRUE)
    /\ stage' = "Dropped"
    /\ UNCHANGED authored

NextEvents ==
    UpdateStage \/ InitCollidersStage \/ SyncRemovalsStage \/ RunStepStage \/ ContextStepStage

SpecEvents == InitEvents /\ [][NextEvents]_vars

\* A body with a collider, and entities that are top-level or the child of the
\* entity before them, with a collider and with or without a body of their own;
\* none carries a PhysicsWorld yet, so that all are in the default world.
WorldChangeScenes ==
    {sc \in [1..MaxSceneEntities ->
                {WithCollider(EntityComponents(parent, TransformIDENTITY, None, rigid_body,
                                               FALSE, None, None)) :
                    parent \in 0..(MaxSceneEntities - 1),
                    rigid_body \in {None, Some("Dynamic")}}] :
        /\ sc[1].parent = 0 /\ sc[1].rigid_body # None
        /\ \A e \in DOMAIN sc : sc[e].parent \in {0, e - 1}}

\* The worlds a PhysicsWorld component may name: those registered at startup.
ChangeWorldIds == 0..1

InitWorldChange ==
    /\ \E sc \in WorldChangeScenes : InitScene(sc, [w \in ChangeWorldIds |-> FALSE], {})
    /\ stage = "Update"
    /\ timestep_mode = DefaultTimestepMode

\* The host moves entities between worlds before the physics schedule runs.
ChangeWorldStage ==
    /\ stage = "Update"
    /\ frames < MaxFrames
    /\ \E e \in 1..MaxSceneEntities, world_id \in ChangeWorldIds :
          set_physics_world(e, world_id)
    /\ stage' = "Update"
    /\ UNCHANGED authored

\* PhysicsSet::SyncBackend: apply_changing_worlds, then the systems that create
\* bodies and colliders and sync_removals, which runs before or after them.
ApplyChangingWorldsStage ==
    /\ stage = "Update"
    /\ frames < MaxFrames
    /\ apply_changing_worlds
    /\ stage' \in {"InitRigidBodies", "SyncRemovalsFirst"}
    /\ UNCHANGED authored

SyncRemovalsFirstStage ==
    /\ stage = "SyncRemovalsFirst"
    /\ sync_removals
    /\ stage' = "InitRigidBodiesLast"
    /\ UNCHANGED authored

InitRigidBodiesStage ==
    /\ stage \in {"InitRigidBodies", "InitRigidBodiesLast"}
    /\ init_rigid_bodies
    /\ stage' = IF stage = "InitRigidBodies" THEN "InitColliders" ELSE "InitCollidersLast"
    /\ UNCHANGED authored

InitCollidersAfterBodiesStage ==
    /\ stage \in {"InitColliders", "InitCollidersLast"}
    /\ init_colliders
    /\ stage' = IF stage = "InitColliders" THEN "SyncRemovals" ELSE "RunStep"
    /\ UNCHANGED authored

\* PhysicsSet::StepSimulation ends the frame.
FrameStepStage ==
    /\ stage = "RunStep"
    /\ step_simulation(MaxElapsedUnits * TimeUnit, TRUE)
    /\ stage' = "Update"
    /\ UNCHANGED authored

NextWorldChange ==
    \/ ChangeWorldStage
    \/ ApplyChangingWorldsStage
    \/ SyncRemovalsFirstStage
    \/ InitRigidBodiesStage
    \/ InitCollidersAfterBodiesStage
    \/ SyncRemovalsStage
    \/ FrameStepStage

SpecWorldChange == InitWorldChange /\ [][NextWorldChange]_vars

\* A chain of entities with colliders, each the child of the one before it; the
\* first has a body, the others have one or not.
WorldChainScenes ==
    {sc \in [1..(MaxSceneEntities + 1) ->
                {WithCollider(EntityComponents(parent, TransformIDENTITY, None, rigid_body,
                                               FALSE, None, None)) :
                    parent \in 0..MaxSceneEntities,
                    rigid_body \in {None, Some("Dynamic")}}] :
        /\ sc[1].rigid_body # None
        /\ \A e \in DOMAIN sc : sc[e].parent = e - 1}

InitWorldChain ==
    /\ \E sc \in WorldChainScenes : InitScene(sc, [w \in ChangeWorldIds |-> FALSE], {})
    /\ stage = "Update"
    /\ timestep_mode = DefaultTimestepMode

\* The frames in which the entities of a chain are moved: one for every entity.
MaxChainFrames == MaxFrames + 1

\* The host writes the PhysicsWorld of one entity before the physics schedule runs.
RetagOneStage ==
    /\ stage = "Update"
    /\ frames < MaxChainFrames
    /\ \A e \in DOMAIN scene : ~scene[e].link_changed
    /\ \E e \in DOMAIN scene, world_id \in ChangeWorldIds : set_physics_world(e, world_id)
    /\ stage' = "Update"
    /\ UNCHANGED authored

ChainApplyChangingWorldsStage ==
    /\ stage = "Update"
    /\ frames < MaxChainFrames
    /\ apply_changing_worlds
    /\ stage' \in {"InitRigidBodies", "SyncRemovalsFirst"}
    /\ UNCHANGED authored

NextWorldChain ==
    \/ RetagOneStage
    \/ ChainApplyChangingWorldsStage
    \/ SyncRemovalsFirstStage
    \/ InitRigidBodiesStage
    \/ InitCollidersAfterBodiesStage
    \/ SyncRemovalsStage
    \/ FrameStepStage

SpecWorldChain == InitWorldChain /\ [][NextWorldChain]_vars

\* The velocities and rotations the entities of a hierarchy are authored with.
ParentVelocity == <<0, 2>>

ChildVelocity == <<0, -1>>

\* A root that has a dynamic body or none, with or without a Velocity, and below
\* it dynamic bodies with or without a Velocity, each the child of the root or of
\* the entity before it; every entity is authored unrotated or a quarter turn
\* about Z from its parent.
HierarchyScenes ==
    {sc \in [1..MaxSceneEntities ->
                {EntityComponents(parent, Transform(translation, rotation, 1), velocity,
                                  rigid_body, FALSE, None, None) :
                    parent \in 0..(MaxSceneEntities - 1),
                    translation \in {<<LengthUnit, 0>>, <<0, 5 * LengthUnit>>},
                    rotation \in {0, 1},
                    velocity \in {None, Some(ZERO), Some(ParentVelocity), Some(ChildVelocity)},
                    rigid_body \in {None, Some("Dynamic")}}] :
        /\ sc[1].parent = 0
        /\ sc[1].transform.translation = <<LengthUnit, 0>>
        /\ sc[1].velocity \in {None, Some(ParentVelocity)}
        /\ \A e \in DOMAIN sc \ {1} :
              /\ sc[e].parent \in {1, e - 1}
              /\ sc[e].transform.translation = <<0, 5 * LengthUnit>>
              /\ sc[e].velocity # Some(ParentVelocity)
              /\ sc[e].rigid_body # None}

\* One world without gravity, stepped once per frame at the authored speed.
InitHierarchy ==
    /\ \E sc \in HierarchyScenes : InitScene(sc, [w \in {DEFAULT_WORLD_ID} |-> FALSE], {})
    /\ stage = "SyncVel"
    /\ timestep_mode.kind \in {"Variable", "Fixed"}
    /\ timestep_mode.time_scale = 1

\* The schedule of one frame of a hierarchy: sync_vel, the step, writeback.
SyncVelStage ==
    /\ stage = "SyncVel"
    /\ frames < MaxFrames
    /\ sync_vel
    /\ stage' = "HierarchyStep"
    /\ UNCHANGED authored

HierarchyStepStage ==
    /\ stage = "HierarchyStep"
    /\ \E elapsed \in ElapsedValues : step_simulation(elapsed, TRUE)
    /\ stage' = "HierarchyWriteback"
    /\ UNCHANGED authored

HierarchyWritebackStage ==
    /\ stage = "HierarchyWriteback"
    /\ writeback_rigid_bodies(TRUE)
    /\ stage' = "SyncVel"
    /\ UNCHANGED authored

NextHierarchy == SyncVelStage \/ HierarchyStepStage \/ HierarchyWritebackStage

SpecHierarchy == InitHierarchy /\ [][NextHierarchy]_vars

\* A chain of entities, each the child of the one before: a root with a dynamic
\* body, enabled or disabled, then entities with an enabled body, a disabled body
\* or none, and last an enabled dynamic body.
DeepScenes ==
    {sc \in [1..(MaxSceneEntities + 1) ->
                {EntityComponents(parent, Transform(<<0, 5 * LengthUnit>>, 0, 1), velocity,
                                  rigid_body, disabled, None, None) :
                    parent \in 0..MaxSceneEntities,
                    velocity \in {None, Some(ParentVelocity), Some(ChildVelocity)},
                    rigid_body \in {None, Some("Dynamic")},
                    disabled \in BOOLEAN}] :
        \A e \in DOMAIN sc :
           /\ sc[e].parent = e - 1
           /\ sc[e].disabled => sc[e].rigid_body # None
           /\ sc[e].velocity = IF sc[e].rigid_body = None THEN None
                               ELSE IF e = 1 THEN Some(ParentVelocity)
                               ELSE Some(ChildVelocity)
           /\ e = 1 => sc[e].rigid_body # None
           /\ e = MaxSceneEntities + 1 => sc[e].rigid_body # None /\ ~sc[e].disabled}

\* One world without gravity, stepped once per frame at the authored speed.
InitDeep ==
    /\ \E sc \in DeepScenes : InitScene(sc, [w \in {DEFAULT_WORLD_ID} |-> FALSE], {})
    /\ stage = "SyncVel"
    /\ timestep_mode.kind \in {"Variable", "Fixed"}
    /\ timestep_mode.time_scale = 1

SpecDeep == InitDeep /\ [][NextHierarchy]_vars

\* Dynamic bodies, each top-level or the child of the entity before it; the first
\* is unit-sized or scaled, and moves along x or is asleep with a Sleeping
\* component that says so; the others are unit-sized and move.
UserChangeScenes ==
    {sc \in [1..MaxSceneEntities ->
                {[EntityComponents(parent, Transform(<<0, LengthUnit>>, 0, scale), velocity,
                                   Some("Dynamic"), FALSE, None, None)
                     EXCEPT !.sleeping = IF velocity = Some(ZERO) THEN Some(TRUE) ELSE None] :
                    parent \in 0..(MaxSceneEntities - 1),
                    scale \in {1, 2},
                    velocity \in {Some(ZERO), Some(<<1, 0>>)}}] :
        \A e \in DOMAIN sc :
           /\ sc[e].parent \in {0, e - 1}
           /\ e > 1 => sc[e].transform.scale = 1 /\ sc[e].velocity # Some(ZERO)}

\* Where the host moves an entity to.
TeleportTarget(transform) ==
    [transform EXCEPT !.translation = <<3 * LengthUnit, 0>>, !.rotation = 1]

\* The gravity of the world that has one.
UserGravity == <<0, -1>>

\* One world, with gravity or without, stepped with interpolation or without,
\* whose bodies all carry a TransformInterpolation or none does.
InitUserChanges ==
    /\ \E sc \in UserChangeScenes : \E tracked \in {{}, DOMAIN sc} :
       \E gravity \in {ZERO, UserGravity} :
          /\ worlds = [w \in {DEFAULT_WORLD_ID} |->
                         [PopulatedWorld(sc, w) EXCEPT !.gravity = gravity]]
          /\ interpolation = [e \in tracked |->
                                [handle |-> CreatedHandle(sc, e), start |-> None, end |-> None]]
          /\ scene = Spawned(sc)
          /\ authored = sc
    /\ next_world_id = 1
    /\ diff = 0
    /\ event_stream = [collision |-> <<>>, contact_force |-> <<>>, read |-> 0]
    /\ frames = 0
    /\ removed = NoneRemoved
    /\ returned = <<>>
    /\ last = Called("init_rigid_bodies", -1, Ok(None))
    /\ stage = "Update"
    /\ timestep_mode \in {DefaultTimestepMode, Interpolated(2 * TimeUnit, 1, 1)}

\* The schedule of one frame: the host's own systems, then
\* apply_rigid_body_user_changes, sync_vel, the step and writeback.
TeleportStage ==
    /\ stage = "Update"
    /\ frames < MaxFrames
    /\ \E e \in DOMAIN scene : set_transform(e, TeleportTarget(scene[e].transform))
    /\ stage' = "Update"
    /\ UNCHANGED authored

UserChangesStage ==
    /\ stage = "Update"
    /\ frames < MaxFrames
    /\ \E force \in BOOLEAN : apply_rigid_body_user_changes(force)
    /\ stage' = "UserSyncVel"
    /\ UNCHANGED authored

UserSyncVelStage ==
    /\ stage = "UserSyncVel"
    /\ sync_vel
    /\ stage' = "UserStep"
    /\ UNCHANGED authored

UserStepStage ==
    /\ stage = "UserStep"
    /\ \E elapsed \in EventElapsedValues : step_simulation(elapsed, TRUE)
    /\ stage' = "UserWriteback"
    /\ UNCHANGED authored

UserWritebackStage ==
    /\ stage = "UserWriteback"
    /\ writeback_rigid_bodies(TRUE)
    /\ stage' = "Update"
    /\ UNCHANGED authored

NextUserChanges ==
    \/ TeleportStage
    \/ UserChangesStage
    \/ UserSyncVelStage
    \/ UserStepStage
    \/ UserWritebackStage

SpecUserChanges == InitUserChanges /\ [][NextUserChanges]_vars

\* Entities with a collider each and a CollidingEntities component, empty when
\* spawned, which the last entity may lack.
CollidingScenes ==
    {sc \in [1..CollidingEntityCount ->
                {[WithCollider(EntityComponents(0, TransformIDENTITY, None, None, FALSE,
                                                None, None))
                     EXCEPT !.colliding = colliding] : colliding \in {None, Some({})}}] :
        \A e \in 1..(CollidingEntityCount - 1) : sc[e].colliding # None}

\* The collision events of the pairs of `entities`, in either order.
CollisionEventsOf(entities) ==
    {[kind |-> kind, entity1 |-> e1, entity2 |-> e2, removed |-> FALSE] :
        kind \in {"Started", "Stopped"}, e1 \in entities, e2 \in entities} \
    {event \in [kind : {"Started", "Stopped"}, entity1 : entities, entity2 : entities,
                removed : {FALSE}] : event.entity1 = event.entity2}

InitColliding ==
    /\ \E sc \in CollidingScenes :
          InitScene(sc, [w \in {DEFAULT_WORLD_ID} |-> FALSE], {})
    /\ stage = "Update"
    /\ timestep_mode = DefaultTimestepMode

SendCollisionEventStage ==
    /\ Len(event_stream.collision) < MaxCollisionEvents
    /\ \E event \in CollisionEventsOf(DOMAIN scene) : send_collision_event(event)
    /\ UNCHANGED <<stage, authored>>

UpdateCollidingEntitiesStage ==
    /\ update_colliding_entities
    /\ UNCHANGED <<stage, authored>>

NextColliding ==
    \/ SendCollisionEventStage
    \/ UpdateCollidingEntitiesStage

SpecColliding == InitColliding /\ [][NextColliding]_vars

\* Top-level dynamic bodies without joints.
JointScenes ==
    [1..JointEntityCount ->
        {EntityComponents(0, TransformIDENTITY, None, Some("Dynamic"), FALSE, None, None)}]

\* The joint components of a scene.
JointCount(sc) ==
    Cardinality({e \in DOMAIN sc : sc[e].impulse_joint # None})
    + Cardinality({e \in DOMAIN sc : sc[e].multibody_joint # None})

InitJoints ==
    /\ \E sc \in JointScenes : InitScene(sc, [w \in {DEFAULT_WORLD_ID} |-> FALSE], {})
    /\ stage = "Update"
    /\ timestep_mode = DefaultTimestepMode

\* The host's systems: a joint component is inserted, one impulse joint to
\* another entity at most and multibody joints to any entity, or an entity is
\* despawned, one at most.
InsertJointStage ==
    /\ stage = "Update"
    /\ JointCount(scene) < MaxJoints
    /\ DOMAIN scene = DOMAIN authored
    /\ \E e \in DOMAIN scene : \E parent \in 1..JointEntityCount :
          \/ /\ parent # e
             /\ \A other \in DOMAIN scene : scene[other].impulse_joint = None
             /\ insert_impulse_joint(e, parent)
          \/ insert_multibody_joint(e, parent)
    /\ UNCHANGED <<stage, authored>>

DespawnJointStage ==
    /\ stage = "Update"
    /\ DOMAIN scene = DOMAIN authored
    /\ \E e \in DOMAIN scene : despawn(e)
    /\ UNCHANGED <<stage, authored>>

\* PhysicsSet::SyncBackend: init_joints, then sync_removals.
InitJointsStage ==
    /\ stage = "Update"
    /\ init_joints
    /\ stage' = "SyncRemovals"
    /\ UNCHANGED authored

SyncRemovalsAfterJointsStage ==
    /\ stage = "SyncRemovals"
    /\ sync_removals
    /\ stage' = "Update"
    /\ UNCHANGED authored

NextJoints ==
    \/ InsertJointStage
    \/ DespawnJointStage
    \/ InitJointsStage
    \/ SyncRemovalsAfterJointsStage

SpecJoints == InitJoints /\ [][NextJoints]_vars

\* The schedule of one frame: PhysicsSet::StepSimulation, then PhysicsSet::Writeback.
StepSimulationStage ==
    /\ stage = "StepSimulation"
    /\ \E elapsed \in ElapsedValues, active \in BOOLEAN : step_simulation(elapsed, active)
    /\ stage' = "Writeback"
    /\ UNCHANGED authored

WritebackStage ==
    /\ stage = "Writeback"
    /\ \E active \in BOOLEAN : writeback_rigid_bodies(active)
    /\ stage' = "StepSimulation"
    /\ UNCHANGED authored

\* Top-level dynamic bodies moving along x, entity e authored e lengths up, each in
\* one of the worlds below n.
InterpolationScenes(n) ==
    [1..MaxSceneEntities -> {EntityComponents(0, TransformIDENTITY, Some(<<1, 0>>),
                                              Some("Dynamic"), FALSE, None, link) :
                                link \in {None} \cup {Some(w) : w \in 1..(n - 1)}}]

\* Interpolated stepping of worlds whose bodies carry TransformInterpolation or not.
InitInterpolation ==
    /\ \E sc \in InterpolationScenes(2) : \E tracked \in SUBSET DOMAIN sc :
          InitScene([e \in DOMAIN sc |->
                        [sc[e] EXCEPT !.transform.translation = <<0, e * LengthUnit>>]],
                    [w \in 0..1 |-> FALSE], tracked)
    /\ stage = "StepSimulation"
    /\ timestep_mode.kind = "Interpolated"

NextInterpolation == StepSimulationStage \/ WritebackStage

SpecInterpolation == InitInterpolation /\ [][NextInterpolation]_vars

-----------------------------------------------------------------------------
(* Claims about the registry, checked under SpecRegistry *)

\* C1: every id add_world returns is greater than every id it returned before
\* and is never 0, so no id is returned twice, also after a removal.
C1_AddWorldIdsIncrease ==
    \A i \in 1..Len(returned) :
        /\ returned[i] # DEFAULT_WORLD_ID
        /\ \A j \in 1..(i - 1) : returned[j] < returned[i]

\* add_world has returned a second id after the world of the first was removed.
C1_Witness ==
    /\ Len(returned) = 2
    /\ returned[1] \notin DOMAIN worlds
    /\ last.op = "add_world"
    /\ last.world_id = returned[2]

ResultOps ==
    { "get_world", "get_world_mut", "remove_world", "entity2body", "entity2collider",
      "entity2impulse_joint", "entity2multibody_joint", "move_shape",
      "propagate_modified_body_positions_to_colliders_for_world" } \cup QueryOps

\* The operations that answer a missing world with None.
OptionOps == {"collider_parent_for_world", "rigid_body_entity_in_world"}

RegistryUnchanged == worlds' = worlds /\ next_world_id' = next_world_id

\* C4 as claimed: every operation that takes a world id, the two Option-valued
\* ones included, answers an unregistered id with WorldNotFound carrying the id.
C4_AllReturnWorldNotFound ==
    [][ (last'.op \in ResultOps \cup OptionOps /\ last'.world_id \notin DOMAIN worlds)
          => /\ last'.result.tag = "WorldNotFound"
             /\ last'.result.world_id = last'.world_id
             /\ RegistryUnchanged ]_vars

\* C4 as amended: the Result-valued operations answer an unregistered id with
\* WorldNotFound carrying the id; collider_parent_for_world and
\* rigid_body_entity_in_world answer None; none of them changes the registry.
C4_WorldNotFoundOrNone ==
    [][ /\ (last'.op \in ResultOps /\ last'.world_id \notin DOMAIN worlds)
           => /\ last'.result.tag = "WorldNotFound"
              /\ last'.result.world_id = last'.world_id
              /\ RegistryUnchanged
        /\ (last'.op \in OptionOps /\ last'.world_id \notin DOMAIN worlds)
           => /\ last'.result.tag = "None"
              /\ RegistryUnchanged ]_vars

\* A query was refused for the id of a world that had been added and removed.
C4_Witness ==
    /\ last.op \in QueryOps
    /\ last.result.tag = "WorldNotFound"
    /\ \E i \in 1..Len(returned) : returned[i] = last.world_id

\* C5: add_world and remove_world(W2) leave every other registered world as it was.
C5_OtherWorldsUnchanged ==
    [][ /\ last'.op = "add_world"
           => \A w1 \in DOMAIN worlds : w1 \in DOMAIN worlds' /\ worlds'[w1] = worlds[w1]
        /\ last'.op = "remove_world"
           => \A w1 \in DOMAIN worlds \ {last'.world_id} :
                 w1 \in DOMAIN worlds' /\ worlds'[w1] = worlds[w1] ]_vars

\* A world was removed while a world that holds a body stayed registered.
C5_Witness ==
    /\ last.op = "remove_world"
    /\ last.result.tag = "Ok"
    /\ \E w1 \in DOMAIN worlds : DOMAIN worlds[w1].bodies # {}

-----------------------------------------------------------------------------
(* Claims about the stepper, checked under SpecStepper *)

\* The stepper calls of the last host update that ran in the given mode.
CallsOf(kind) ==
    {last.calls[w] : w \in {x \in DOMAIN last.calls : last.calls[x].mode.kind = kind}}

\* Every sub-step of the call has length dt / substeps * time_scale.
SubstepsOfLength(c) ==
    \A i \in 1..Len(c.sub_dts) : c.sub_dts[i] * c.mode.substeps = c.mode.dt * c.mode.time_scale

\* Accumulator values a Fixed call is tried with in place of the actual one.
DiffSamples == {-TimeUnit, 0, TimeUnit}

\* C6: a Fixed{dt, substeps} call runs exactly `substeps` sub-steps of length
\* dt / substeps whatever the elapsed time, leaves diff as it is, and does the
\* same to the world whatever the value of diff.
C6_FixedRunsSubsteps ==
    [][ (last'.op = "step_simulation" /\ timestep_mode.kind = "Fixed") =>
          /\ diff' = diff
          /\ \A w \in DOMAIN last'.calls :
               LET c == last'.calls[w]
               IN /\ Len(c.sub_dts) = c.mode.substeps
                  /\ \A i \in 1..Len(c.sub_dts) : c.sub_dts[i] * c.mode.substeps = c.mode.dt
                  /\ c.diff_after = c.diff_before
                  /\ \A d \in DiffSamples :
                       LET alt == world_step_simulation(
                                      StepState(worlds[w], TRUE, d, interpolation),
                                      c.mode, c.elapsed, TRUE)
                       IN /\ alt.diff = d
                          /\ alt.sub_dts = c.sub_dts
                          /\ alt.world.bodies = worlds'[w].bodies ]_vars

\* A Fixed call with two sub-steps ran in a frame shorter than dt.
C6_Witness ==
    \E c \in CallsOf("Fixed") :
        /\ c.mode.substeps = 2
        /\ 0 < c.elapsed /\ c.elapsed < c.mode.dt
        /\ Len(c.sub_dts) = 2

\* C7: an Interpolated call adds the unscaled elapsed time to diff and runs n
\* physics steps, n the least number with diff_before + elapsed - n * dt <= 0,
\* each of `substeps` sub-steps of length dt / substeps * time_scale, and
\* leaves diff = diff_before + elapsed - n * dt.
C7_InterpolatedStepCount ==
    \A c \in CallsOf("Interpolated") :
        LET n == c.steps
            total == c.diff_before + c.elapsed
        IN /\ n >= 0
           /\ total - n * c.mode.dt <= 0
           /\ n > 0 => total - (n - 1) * c.mode.dt > 0
           /\ c.diff_after = total - n * c.mode.dt
           /\ Len(c.sub_dts) = n * c.mode.substeps
           /\ SubstepsOfLength(c)

\* An Interpolated call with a time scale of 2 ran two steps of two sub-steps
\* and overshot the elapsed time.
C7_Witness ==
    \E c \in CallsOf("Interpolated") :
        /\ c.mode.time_scale = 2
        /\ c.mode.substeps = 2
        /\ c.steps = 2
        /\ Len(c.sub_dts) = 4
        /\ c.diff_after < 0

\* C8 as claimed: after an Interpolated call, 0 <= diff < dt.
C8_DiffNonNegative ==
    \A c \in CallsOf("Interpolated") : 0 <= c.diff_after /\ c.diff_after < c.mode.dt

\* C8 as amended: after an Interpolated call diff <= 0, and diff > -dt when the
\* call ran a step or diff > -dt held before it; so with dt unchanged between
\* calls, -dt < diff <= 0 holds all along.
C8_DiffInLastStep ==
    /\ \A c \in CallsOf("Interpolated") :
          /\ c.diff_after <= 0
          /\ (c.steps >= 1 \/ c.diff_before > -c.mode.dt) => c.diff_after > -c.mode.dt
    /\ timestep_mode.kind = "Interpolated" => (-timestep_mode.dt < diff /\ diff <= 0)

\* An Interpolated call ran two steps and left diff negative.
C8_Witness ==
    \E c \in CallsOf("Interpolated") : c.steps = 2 /\ c.diff_after < 0 /\ diff = c.diff_after

\* Accumulator values of the range 0 < d < dt an Interpolated call is tried
\* with (the calls of the behaviours themselves start from d <= 0).
UnitDiffSamples(dt) == {dt \div 2, dt - 1}

\* The blend fraction (dt + d) / dt lies in [0, 1].
InUnitInterval(dt, d) ==
    \A t \in {BlendFraction(dt, d)} : t.den > 0 /\ 0 <= t.num /\ t.num <= t.den

\* C9: when 0 <= diff < dt holds before a frame in Interpolated mode, the blend
\* fraction (dt + diff) / dt taken from diff after the frame's stepper call lies
\* in [0, 1], whatever the elapsed time: for the frame as it ran, for each of
\* its calls, and for a call entered with other values of diff of that range.
C9_BlendFractionInUnitInterval ==
    [][ (last'.op = "step_simulation" /\ timestep_mode.kind = "Interpolated") =>
          /\ (0 <= diff /\ diff < timestep_mode.dt) => InUnitInterval(timestep_mode.dt, diff')
          /\ \A w \in DOMAIN last'.calls :
               LET c == last'.calls[w]
               IN /\ (0 <= c.diff_before /\ c.diff_before < c.mode.dt) =>
                         InUnitInterval(c.mode.dt, c.diff_after)
                  /\ \A d \in UnitDiffSamples(c.mode.dt) :
                       \A alt \in {world_step_simulation(
                                       StepState(worlds[w], TRUE, d, interpolation),
                                       c.mode, c.elapsed, TRUE)} :
                           InUnitInterval(c.mode.dt, alt.diff) ]_vars

\* A call from diff = 0 ended with a blend fraction strictly between 0 and 1.
C9_Witness ==
    \E c \in CallsOf("Interpolated") :
        /\ c.diff_before = 0
        /\ c.steps >= 1
        /\ 0 < BlendFraction(c.mode.dt, c.diff_after).num
        /\ BlendFraction(c.mode.dt, c.diff_after).num < BlendFraction(c.mode.dt, c.diff_after).den

\* The pose writeback computes for the body of every entity of the world is the
\* engine's pose of that body.
WritesRawPose(w) ==
    \A e \in DOMAIN worlds[w].entity2body :
        LET rb == BodyOf(w, e)
            pos == interpolated_pos(rb, interpolation[e], timestep_mode, diff)
        IN pos = iso_to_transform(rb.position)

\* C10 as claimed: an Interpolated call with elapsed = dt runs one step and
\* the blend fraction after it is 1.
C10_ElapsedDtBlendsToEnd ==
    \A c \in CallsOf("Interpolated") :
        c.elapsed = c.mode.dt =>
            /\ c.steps = 1
            /\ BlendFraction(c.mode.dt, c.diff_after).num = BlendFraction(c.mode.dt, c.diff_after).den

\* C10 as amended: an Interpolated call with elapsed = dt and -dt < diff <= 0
\* before it runs one step and leaves diff as it was; the blend fraction is 1,
\* and the written pose the engine's pose, when diff was 0 before the call.
C10_ElapsedDtOneStep ==
    \A c \in CallsOf("Interpolated") :
        (c.elapsed = c.mode.dt /\ -c.mode.dt < c.diff_before /\ c.diff_before <= 0) =>
            /\ c.steps = 1
            /\ c.diff_after = c.diff_before
            /\ c.diff_before = 0 =>
                 /\ BlendFraction(c.mode.dt, diff).num = BlendFraction(c.mode.dt, diff).den
                 /\ WritesRawPose(c.world_id)

\* A call with elapsed = dt from diff = 0 moved a body whose pose before the step
\* was snapshotted.
C10_Witness ==
    \E c \in CallsOf("Interpolated") :
        /\ c.elapsed = c.mode.dt
        /\ c.diff_before = 0
        /\ c.steps = 1
        /\ \E e \in DOMAIN worlds[c.world_id].entity2body :
             /\ interpolation[e].start # None
             /\ interpolation[e].start # Some(BodyOf(c.world_id, e).position)

-----------------------------------------------------------------------------
(* Claims about interpolation, checked under SpecInterpolation *)

\* The worlds other than w stepped in the same host update that hold a body under
\* the handle h.
SameHandleElsewhere(w, h) ==
    {o \in DOMAIN last.calls \ {w} : h \in DOMAIN worlds[o].bodies}

-----------------------------------------------------------------------------
(* Claims about events and removed colliders, checked under SpecEvents *)

\* The stepper calls of the last operation: those of a host update, or the one
\* call the host's own code made.
StepperCalls ==
    IF last.op \in {"step_simulation", "RapierWorld::step_simulation",
                    "RapierContext::step_simulation"}
    THEN {last.calls[w] : w \in DOMAIN last.calls}
    ELSE {}

\* The events of a call went to the event handler and to nothing else.
ToEventHandlerOnly(c) ==
    /\ c.world_after.handler_received =
          c.world_before.handler_received \o c.world_after.reported.collision
                                          \o c.world_after.reported.contact_force
    /\ c.world_after.collision_events_to_send = c.world_before.collision_events_to_send
    /\ c.world_after.contact_force_events_to_send =
          c.world_before.contact_force_events_to_send

\* The events of a call went to the internal queues and to nothing else.
ToEventQueueOnly(c) ==
    /\ c.world_after.handler_received = c.world_before.handler_received
    /\ c.world_after.collision_events_to_send =
          c.world_before.collision_events_to_send
          \o BevyEvents(c.world_after, c.world_after.reported.collision)
    /\ c.world_after.contact_force_events_to_send =
          c.world_before.contact_force_events_to_send
          \o BevyEvents(c.world_after, c.world_after.reported.contact_force)

\* The events of a call went nowhere.
ToNoSink(c) ==
    /\ c.world_after.handler_received = c.world_before.handler_received
    /\ c.world_after.collision_events_to_send = c.world_before.collision_events_to_send
    /\ c.world_after.contact_force_events_to_send =
          c.world_before.contact_force_events_to_send

\* C12: the events the engine reports during a stepper call go to the event
\* handler alone when the world has one, whether event generation is requested
\* or not; else to the internal queues alone when it is requested; else nowhere.
C12_OneEventSink ==
    \A c \in StepperCalls :
        IF c.world_before.event_handler THEN ToEventHandlerOnly(c)
        ELSE IF c.create_bevy_events THEN ToEventQueueOnly(c)
        ELSE ToNoSink(c)

\* A call with event generation requested on a world with an event handler
\* reported collision and contact-force events, and the handler was given them.
C12_Witness ==
    \E c \in StepperCalls :
        /\ c.world_before.event_handler
        /\ c.create_bevy_events
        /\ c.world_after.reported.collision # <<>>
        /\ c.world_after.reported.contact_force # <<>>
        /\ c.world_after.handler_received # c.world_before.handler_received

\* The queues of the worlds as they were when their flush came, one after the
\* other in the order the worlds were visited.
RECURSIVE FlushedQueues(_, _, _)
FlushedQueues(calls, order, queue) ==
    IF order = <<>> THEN <<>>
    ELSE calls[Head(order)].world_after[queue] \o FlushedQueues(calls, Tail(order), queue)

\* C13: a host update that flushes appends to the host's event stream the queued
\* collision and contact-force events of every world, each queue whole and in
\* its order, and leaves both queues of every world empty, so that no later
\* flush sends an event again; nothing else writes to the stream.
C13_FlushSendsQueuedOnce ==
    [][IF \/ last'.op = "step_simulation" /\ DOMAIN last'.calls # {}
          \/ last'.op = "RapierContext::step_simulation" /\ last'.result.value
       THEN /\ \A w \in DOMAIN worlds' :
                  /\ worlds'[w].collision_events_to_send = <<>>
                  /\ worlds'[w].contact_force_events_to_send = <<>>
            /\ \E order \in Orders(DOMAIN last'.calls) :
                  /\ event_stream'.collision =
                        event_stream.collision
                        \o FlushedQueues(last'.calls, order, "collision_events_to_send")
                  /\ event_stream'.contact_force =
                        event_stream.contact_force
                        \o FlushedQueues(last'.calls, order, "contact_force_events_to_send")
       ELSE event_stream' = event_stream]_vars

\* A second flush has sent events queued after the first, which had sent some too.
C13_Witness ==
    /\ last.op = "step_simulation"
    /\ \E c \in StepperCalls :
          /\ c.world_after.collision_events_to_send # <<>>
          /\ event_stream.contact_force # <<>>
          /\ Len(event_stream.collision) > Len(c.world_after.collision_events_to_send)
          /\ worlds[c.world_id].collision_events_to_send = <<>>

\* The colliders an engine event names.
EventColliders(event) == {event.collider1, event.collider2}

\* C14: sync_removals records every collider it removes from a world in the
\* deleted-collider map of that world under the entity that owned it, and every
\* collision-stopped event a later stepper call reports for a removed collider
\* finds the entity of each of its colliders, in the collider set or in that map.
C14_RemovedColliderResolves ==
    /\ last.op = "sync_removals" =>
          \A w \in DOMAIN worlds : \A h \in worlds[w].removed_colliders :
              h \in DOMAIN worlds[w].deleted_colliders
    /\ \A c \in StepperCalls :
          \A i \in 1..Len(c.world_after.reported.collision) :
              c.world_after.reported.collision[i].removed =>
                 \A h \in EventColliders(c.world_after.reported.collision[i]) :
                     collider2entity(c.world_before, h) # None

\* C15: after every host update the deleted-collider map of every world is empty.
C15_DeletedCollidersEmptyAfterUpdate ==
    last.op \in {"step_simulation", "RapierContext::step_simulation"} =>
       \A w \in DOMAIN worlds : worlds[w].deleted_colliders = EmptyMap

-----------------------------------------------------------------------------
(* Claims about entities that change worlds, checked under SpecWorldChange *)

\* The worlds that have the entity as a key of the map.
WorldsHolding(map, e) == {w \in DOMAIN worlds : e \in DOMAIN worlds[w][map]}

-----------------------------------------------------------------------------
(* Claims about hierarchies of bodies, checked under SpecHierarchy *)

\* The entity is a dynamic body of the writeback query.
IsDynamicBody(sc, e) == InWritebackQuery(sc, e) /\ sc[e].rigid_body = Some("Dynamic")

\* The pairs <<P, C>> of a top-level dynamic body and a dynamic body that is its child.
ParentChildPairs(sc) ==
    {pc \in (DOMAIN sc) \X (DOMAIN sc) :
        /\ sc[pc[1]].parent = 0 /\ sc[pc[2]].parent = pc[1]
        /\ IsDynamicBody(sc, pc[1]) /\ IsDynamicBody(sc, pc[2])}

\* C17: after a writeback pass, the new world transform of a dynamic parent
\* composed with the newly written local transform of its dynamic child is the
\* pose the engine had for the child, in translation and in rotation.
C17_ChildComposesToEnginePose ==
    [][last'.op = "writeback_rigid_bodies" =>
          \A pc \in ParentChildPairs(scene) :
             LET composed == mul_transform(scene'[pc[1]].transform, scene'[pc[2]].transform)
                 pose == BodyOf(scene[pc[2]].link[1], pc[2]).position
             IN /\ composed.translation = pose.translation
                /\ composed.rotation = pose.rotation]_vars

\* The time the step of the frame simulated in the world: its sub-steps together.
SimulatedTime(c) == IF c.sub_dts = <<>> THEN 0 ELSE Len(c.sub_dts) * c.sub_dts[1]

\* The pairs of ParentChildPairs whose parent was authored unrotated with a
\* Velocity and whose child was authored with a Velocity.
MovingPairs ==
    {pc \in ParentChildPairs(scene) :
        /\ authored[pc[1]].transform.rotation = QuatIDENTITY
        /\ authored[pc[1]].velocity # None
        /\ authored[pc[2]].velocity # None}

CarriedPairs ==
    {pc \in ParentChildPairs(scene) :
        authored[pc[1]].velocity # None /\ authored[pc[2]].velocity = Some(ZERO)}

\* C19: at the end of every frame, the child authored with velocity zero under a
\* parent moving at V had the engine velocity V when the step began and when it
\* ended, and has the Velocity component zero after writeback.
C19_CarriedChildReportsZero ==
    last.op = "writeback_rigid_bodies" =>
       \A pc \in CarriedPairs :
          LET c == last.calls[scene[pc[2]].link[1]]
              V == authored[pc[1]].velocity[1]
              handle == scene[pc[2]].handle[1]
          IN /\ c.world_before.bodies[handle].linvel = V
             /\ c.world_after.bodies[handle].linvel = V
             /\ scene[pc[2]].velocity = Some(ZERO)

\* The second frame has ended for a child at rest on a parent that moves.
C19_Witness ==
    /\ last.op = "writeback_rigid_bodies"
    /\ frames = 2
    /\ \E pc \in CarriedPairs :
          /\ authored[pc[1]].velocity = Some(ParentVelocity)
          /\ last.calls[scene[pc[2]].link[1]].world_after.bodies[scene[pc[2]].handle[1]].linvel
                = ParentVelocity
          /\ scene[pc[2]].velocity # Some(ParentVelocity)

\* The bodies below a top-level entity: what sync_vel may add a velocity to.
DescendantBodies(sc) ==
    {e \in DOMAIN sc : sc[e].parent # 0 /\ InSyncVelQuery(sc, e)
                       /\ sc[e].handle[1] \in DOMAIN worlds[sc[e].link[1]].bodies}

\* C20: at the end of every frame, with no forces acting, the engine velocity of
\* every descendant body is the one it was created with and its Velocity
\* component is the authored one: writeback took off what sync_vel had added.
C20_SyncVelUndone ==
    last.op = "writeback_rigid_bodies" =>
       \A e \in DescendantBodies(scene) :
          /\ BodyOf(scene[e].link[1], e).linvel = BuiltBody(authored, e).linvel
          /\ scene[e].velocity = authored[e].velocity

-----------------------------------------------------------------------------
(* Claims about user changes and writeback, checked under SpecUserChanges *)

\* The transform scene propagation computed for the entity was written since the
\* system ran last and is not the one cached for its body, or every written
\* transform is to be taken for an edit.
EditDetected(e, force) ==
    /\ GlobalTransformChanged(scene, e)
    /\ \/ force
       \/ scene[e].handle[1] \notin DOMAIN worlds[scene[e].link[1]].last_body_transform_set
       \/ worlds[scene[e].link[1]].last_body_transform_set[scene[e].handle[1]]
             # GlobalTransform(scene, e)

\* C21: apply_rigid_body_user_changes sets start and end of the interpolation
\* state of a body to None when it detects an edit of the body's transform and
\* leaves the state as it is when it detects none; a writeback that finds start
\* None writes the engine's own pose of a top-level body.
C21_EditResetsInterpolation ==
    [][/\ last'.op = "apply_rigid_body_user_changes" =>
             \A e \in DOMAIN interpolation :
                InSyncVelQuery(scene, e) =>
                   IF EditDetected(e, last'.result.value)
                   THEN interpolation'[e].start = None /\ interpolation'[e].end = None
                   ELSE interpolation'[e] = interpolation[e]
       /\ last'.op = "writeback_rigid_bodies" =>
             \A e \in DOMAIN interpolation :
                /\ InWritebackQuery(scene, e) /\ scene[e].parent = 0
                /\ interpolation[e].start = None
                => LET pose == BodyOf(scene[e].link[1], e).position
                   IN /\ scene'[e].transform.translation = pose.translation
                      /\ scene'[e].transform.rotation = pose.rotation]_vars

\* The system has just reset the interpolation state of a body that the host
\* moved after a step had taken a snapshot for it, with the force flag off.
C21_Witness ==
    /\ last.op = "apply_rigid_body_user_changes"
    /\ last.result.value = FALSE
    /\ \E e \in DOMAIN interpolation :
          /\ scene[e].transform = TeleportTarget(scene[e].transform)
          /\ DEFAULT_WORLD_ID \in DOMAIN last.calls
          /\ last.calls[DEFAULT_WORLD_ID].interp_after[e].start # None
          /\ interpolation[e].start = None
          /\ interpolation[e].end = None

\* The bodies of the query for which the system, run with the force flag off
\* right after a writeback, sets the position or resets the interpolation state.
TakenForEdits ==
    {e \in DOMAIN scene :
        /\ InSyncVelQuery(scene, e)
        /\ \/ EditDetected(e, FALSE)
           \/ e \in DOMAIN interpolation /\ interpolation'[e] # interpolation[e]
           \/ LET h == scene[e].handle[1]
                  old == worlds[scene[e].link[1]]
                  new == worlds'[scene[e].link[1]]
              IN \/ h \notin DOMAIN old.last_body_transform_set
                 \/ new.last_body_transform_set[h] # old.last_body_transform_set[h]
                 \/ new.bodies[h].position # old.bodies[h].position}

\* C24: with the force flag off, apply_rigid_body_user_changes running on what
\* writeback_rigid_bodies left, no host system having written in between, takes
\* no body for edited: it compares equal transforms, sets no position and
\* resets no interpolation state, for root and child bodies of any scale.
C24_WritebackIsNoEdit ==
    [][/\ last.op = "writeback_rigid_bodies"
       /\ last'.op = "apply_rigid_body_user_changes"
       /\ last'.result.value = FALSE
       => TakenForEdits = {}]_vars

\* What holds of the bodies writeback wrote: the ones taken for edited are
\* top-level bodies of a scale other than one.
OnlyScaledRootsTakenForEdits ==
    [][/\ last.op = "writeback_rigid_bodies"
       /\ last'.op = "apply_rigid_body_user_changes"
       /\ last'.result.value = FALSE
       => \A e \in TakenForEdits : scene[e].parent = 0 /\ scene[e].transform.scale # 1]_vars

\* The components of an entity a step has notified a change of.
Notified(e) == scene'[e].changed \ scene[e].changed

\* C29: writeback_rigid_bodies assigns the Transform, the Velocity and the
\* Sleeping component of an entity only when the new value differs from the one
\* the component holds: a component it leaves equal is not notified as changed.
C29_WritebackAssignsOnlyDifferences ==
    [][last'.op = "writeback_rigid_bodies" =>
          \A e \in DOMAIN scene :
             /\ "Transform" \in Notified(e) => scene'[e].transform # scene[e].transform
             /\ "Velocity" \in Notified(e) => scene'[e].velocity # scene[e].velocity
             /\ "Sleeping" \in Notified(e) => scene'[e].sleeping # scene[e].sleeping
             /\ Notified(e) = {} => scene'[e] = scene[e]]_vars

\* A writeback has run over a body at rest and asleep without notifying any
\* change for it, and has notified the new transform and velocity of a body
\* that fell.
C29_Witness ==
    /\ last.op = "writeback_rigid_bodies"
    /\ last.result.value
    /\ \E e \in DOMAIN scene :
          /\ InWritebackQuery(scene, e)
          /\ scene[e].sleeping = Some(TRUE) /\ scene[e].velocity = Some(ZERO)
          /\ scene[e].changed = {}
    /\ \E e \in DOMAIN scene :
          /\ InWritebackQuery(scene, e)
          /\ {"Transform", "Velocity"} \subseteq scene[e].changed
          /\ scene[e].transform # authored[e].transform
          /\ scene[e].velocity # authored[e].velocity

-----------------------------------------------------------------------------
(* Claims about CollidingEntities, checked under SpecColliding *)

\* The collision events sent so far that name the two entities, in either order.
EventsOfPair(a, b) ==
    SelectSeq(event_stream.collision,
              LAMBDA event : {event.entity1, event.entity2} = {a, b})

\* The last collision event sent for the two entities was a Started.
LastWasStarted(a, b) ==
    /\ EventsOfPair(a, b) # <<>>
    /\ EventsOfPair(a, b)[Len(EventsOfPair(a, b))].kind = "Started"

\* C22: once update_colliding_entities has read every collision event sent, for
\* any two entities that both have a CollidingEntities, each is in the other's
\* set exactly when the last event for the pair, in either order of its
\* entities, was a Started, and in neither set otherwise.
C22_CollidingEntitiesSymmetric ==
    event_stream.read = Len(event_stream.collision) =>
       \A a \in DOMAIN scene : \A b \in DOMAIN scene \ {a} :
          scene[a].colliding # None /\ scene[b].colliding # None =>
             /\ b \in scene[a].colliding[1] <=> a \in scene[b].colliding[1]
             /\ b \in scene[a].colliding[1] <=> LastWasStarted(a, b)

\* The system has read a Started and then a Stopped of the same pair, named in
\* the other order, while another pair of entities is still colliding.
C22_Witness ==
    /\ last.op = "update_colliding_entities"
    /\ event_stream.read = Len(event_stream.collision)
    /\ \E a \in DOMAIN scene : \E b \in DOMAIN scene \ {a} : \E c \in DOMAIN scene \ {a, b} :
          /\ scene[a].colliding # None /\ scene[b].colliding # None /\ scene[c].colliding # None
          /\ Len(EventsOfPair(a, b)) = 2
          /\ EventsOfPair(a, b)[1].kind = "Started" /\ EventsOfPair(a, b)[1].entity1 = a
          /\ EventsOfPair(a, b)[2].kind = "Stopped" /\ EventsOfPair(a, b)[2].entity1 = b
          /\ b \notin scene[a].colliding[1] /\ a \notin scene[b].colliding[1]
          /\ c \in scene[a].colliding[1] /\ a \in scene[c].colliding[1]

-----------------------------------------------------------------------------
(* Claims about joints and removals, checked under SpecJoints *)

\* No joint of the set closes a loop: its two bodies are not linked by the others.
LoopFree(joints) ==
    \A j \in DOMAIN joints :
       joints[j].body2 \notin
          MultibodyLinks([k \in DOMAIN joints \ {j} |-> joints[k]], {joints[j].body1})

\* The entities whose MultibodyJoint init_joints looks at and leaves without a
\* handle although both bodies exist: the ones the engine rejected.
RejectedMultibodyJoints ==
    {e \in DOMAIN scene :
        /\ scene[e].multibody_joint # None /\ scene[e].multibody_joint_handle = None
        /\ {e, scene[e].multibody_joint[1]} \subseteq DOMAIN worlds[LinkOf(scene, e)].entity2body
        /\ scene'[e].multibody_joint_handle = None}

\* C23: init_joints completes when a MultibodyJoint would close a kinematic loop:
\* the engine's joints stay free of loops, an entity is rejected only when its
\* two bodies are linked already or its body has a parent joint, a rejected
\* entity gets no joint, no entity2multibody_joint entry and no handle component,
\* and the joints, entries and components there were stay as they are.
C23_LoopRejectedQuietly ==
    [][last'.op = "init_joints" =>
          \A w \in DOMAIN worlds :
             LET old == worlds[w]
                 new == worlds'[w]
                 accepted == {e \in DOMAIN scene : /\ LinkOf(scene, e) = w
                                                   /\ scene[e].multibody_joint_handle = None
                                                   /\ scene'[e].multibody_joint_handle # None}
             IN /\ LoopFree(new.multibody_joints)
                /\ \A e \in RejectedMultibodyJoints :
                      LinkOf(scene, e) = w =>
                         LET source == old.entity2body[scene[e].multibody_joint[1]]
                             target == old.entity2body[e]
                         IN /\ \/ target \in MultibodyLinks(new.multibody_joints, {source})
                               \/ \E j \in DOMAIN new.multibody_joints :
                                     new.multibody_joints[j].body2 = target
                            /\ e \notin DOMAIN new.entity2multibody_joint
                            /\ [scene'[e] EXCEPT !.impulse_joint_handle = None]
                                  = [scene[e] EXCEPT !.impulse_joint_handle = None]
                /\ DOMAIN new.entity2multibody_joint
                      = DOMAIN old.entity2multibody_joint \cup accepted
                /\ DOMAIN new.multibody_joints
                      = DOMAIN old.multibody_joints
                        \cup {new.entity2multibody_joint[e] : e \in accepted}
                /\ \A e \in accepted :
                      /\ scene'[e].multibody_joint_handle = Some(new.entity2multibody_joint[e])
                      /\ new.multibody_joints[new.entity2multibody_joint[e]]
                            = [body1 |-> old.entity2body[scene[e].multibody_joint[1]],
                               body2 |-> old.entity2body[e]]
                /\ \A e \in DOMAIN old.entity2multibody_joint :
                      new.entity2multibody_joint[e] = old.entity2multibody_joint[e]
                /\ \A j \in DOMAIN old.multibody_joints :
                      new.multibody_joints[j] = old.multibody_joints[j]
                /\ new.bodies = old.bodies /\ new.entity2body = old.entity2body]_vars

\* init_joints has run over three MultibodyJoints that form a ring: two are joints
\* of the engine and the third, whose body is linked to its parent's through
\* them, has no handle and no entry.
C23_Witness ==
    /\ last.op = "init_joints"
    /\ \E e \in DOMAIN scene :
          LET world == worlds[LinkOf(scene, e)]
          IN /\ scene[e].multibody_joint # None
             /\ scene[e].multibody_joint[1] # e
             /\ scene[e].multibody_joint_handle = None
             /\ e \notin DOMAIN world.entity2multibody_joint
             /\ {e, scene[e].multibody_joint[1]} \subseteq DOMAIN world.entity2body
             /\ Cardinality(DOMAIN world.multibody_joints) = 2
             /\ ~\E j \in DOMAIN world.multibody_joints :
                   world.multibody_joints[j].body2 = world.entity2body[e]
             /\ world.entity2body[e]
                   \in MultibodyLinks(world.multibody_joints,
                                      {world.entity2body[scene[e].multibody_joint[1]]})

\* The body entries of a world's index and of its last-transform cache are
\* handles of bodies the engine has.
BodyEntriesLive(world) ==
    /\ \A e \in DOMAIN world.entity2body : world.entity2body[e] \in DOMAIN world.bodies
    /\ DOMAIN world.last_body_transform_set \subseteq DOMAIN world.bodies

\* The collider and joint entries of a world's index are handles of colliders
\* and joints the engine has.
DependentEntriesLive(world) ==
    /\ \A e \in DOMAIN world.entity2collider :
          world.entity2collider[e] \in DOMAIN world.colliders
    /\ \A e \in DOMAIN world.entity2impulse_joint :
          world.entity2impulse_joint[e] \in DOMAIN world.impulse_joints
    /\ \A e \in DOMAIN world.entity2multibody_joint :
          world.entity2multibody_joint[e] \in DOMAIN world.multibody_joints

\* C30: when sync_removals has run, no map of a world's index and no entry of its
\* last-transform cache holds the handle of a body, collider or joint the engine
\* no longer has, and every collider the run removed is in deleted_colliders.
C30_NoHandleOfRemovedObject ==
    [][last'.op = "sync_removals" =>
          \A w \in DOMAIN worlds' :
             /\ BodyEntriesLive(worlds'[w])
             /\ DependentEntriesLive(worlds'[w])
             /\ (DOMAIN worlds[w].colliders \ DOMAIN worlds'[w].colliders)
                   \subseteq DOMAIN worlds'[w].deleted_colliders]_vars

\* What holds when sync_removals has run: the body entries are live.
RemovedBodyEntriesErased ==
    last.op = "sync_removals" => \A w \in DOMAIN worlds : BodyEntriesLive(worlds[w])

-----------------------------------------------------------------------------
(* Claims about sync_vel and the writeback recursion *)

\* C26: sync_vel leaves the scene as it is, every component of every entity, and
\* changes nothing of a world but the linear velocity of bodies; the bodies of
\* top-level entities keep theirs.
C26_SyncVelOnlyEngineVelocities ==
    [][last'.op = "sync_vel" =>
          /\ scene' = scene
          /\ interpolation' = interpolation
          /\ DOMAIN worlds' = DOMAIN worlds
          /\ \A w \in DOMAIN worlds :
                /\ [worlds'[w] EXCEPT !.bodies = worlds[w].bodies] = worlds[w]
                /\ DOMAIN worlds'[w].bodies = DOMAIN worlds[w].bodies
                /\ \A h \in DOMAIN worlds[w].bodies :
                      LET old == worlds[w].bodies[h]
                          new == worlds'[w].bodies[h]
                      IN /\ [new EXCEPT !.linvel = old.linvel] = old
                         /\ scene[old.user_data].parent = 0 => new = old]_vars

\* sync_vel has added the velocity of a top-level body to the body of a child,
\* whose Velocity component is the authored one.
C26_Witness ==
    /\ last.op = "sync_vel"
    /\ \E pc \in ParentChildPairs(scene) :
          /\ scene[pc[1]].parent = 0
          /\ authored[pc[1]].velocity = Some(ParentVelocity)
          /\ authored[pc[2]].velocity = Some(ChildVelocity)
          /\ scene[pc[2]].velocity = Some(ChildVelocity)
          /\ BodyOf(scene[pc[2]].link[1], pc[2]).linvel = VAdd(ChildVelocity, ParentVelocity)
          /\ BodyOf(scene[pc[1]].link[1], pc[1]).linvel = ParentVelocity

\* The top-level entity an entity is below.
RECURSIVE TopOf(_, _)
TopOf(sc, e) == IF sc[e].parent = 0 THEN e ELSE TopOf(sc, sc[e].parent)

\* The Velocity component of an entity, zero without one.
AuthoredLinvel(sc, e) == IF sc[e].velocity # None THEN sc[e].velocity[1] ELSE ZERO

\* The entities below a top-level entity that sync_vel finds a body for.
SyncedBodies(ws, sc) ==
    {e \in DOMAIN sc : /\ sc[e].parent # 0
                       /\ InSyncVelQuery(sc, e)
                       /\ sc[e].handle[1] \in DOMAIN ws[sc[e].link[1]].bodies}

\* What sync_vel hands from an entity to its children, given the worlds it
\* leaves: the Velocity of a top-level entity, the new engine velocity of a
\* body below one, and for an entity without a body what its parent hands down.
RECURSIVE HandedVelocity(_, _, _)
HandedVelocity(ws, sc, e) ==
    IF sc[e].parent = 0 THEN AuthoredLinvel(sc, e)
    ELSE IF e \in SyncedBodies(ws, sc) THEN ws[sc[e].link[1]].bodies[sc[e].handle[1]].linvel
    ELSE HandedVelocity(ws, sc, sc[e].parent)

\* C25: sync_vel adds to the engine velocity of every body below a top-level
\* entity, at any depth, exactly the linear velocity of the Velocity component of
\* that top-level entity, zero when it has none.
C25_AddsTopVelocity ==
    [][last'.op = "sync_vel" =>
          \A e \in SyncedBodies(worlds, scene) :
             BodyOf(scene[e].link[1], e).linvel' =
                VAdd(BodyOf(scene[e].link[1], e).linvel,
                     AuthoredLinvel(scene, TopOf(scene, e)))]_vars

\* C25 as the code has it: sync_vel adds to the engine velocity of every body
\* below a top-level entity what its parent hands down, which is the top-level
\* entity's Velocity for its children and, below a body, the engine velocity that
\* body has after its own addition; an entity without a body hands down what it
\* was handed.
C25_AddsHandedVelocity ==
    [][last'.op = "sync_vel" =>
          \A e \in SyncedBodies(worlds, scene) :
             BodyOf(scene[e].link[1], e).linvel' =
                VAdd(BodyOf(scene[e].link[1], e).linvel,
                     HandedVelocity(worlds', scene, scene[e].parent))]_vars

\* sync_vel has run in the first frame over a top-level body, its child body and
\* the body of a grandchild, which got the velocities of both ancestors added.
C25_Witness ==
    /\ last.op = "sync_vel"
    /\ frames = 0
    /\ \E g \in SyncedBodies(worlds, scene) :
          LET c == scene[g].parent
              t == scene[c].parent
          IN /\ c \in SyncedBodies(worlds, scene)
             /\ scene[t].parent = 0
             /\ AuthoredLinvel(scene, t) # ZERO /\ AuthoredLinvel(scene, c) # ZERO
             /\ BodyOf(scene[g].link[1], g).linvel =
                   VAdd(AuthoredLinvel(scene, g),
                        VAdd(AuthoredLinvel(scene, c), AuthoredLinvel(scene, t)))

\* Entity e is below entity a in the hierarchy.
RECURSIVE IsBelow(_, _, _)
IsBelow(sc, e, a) ==
    sc[e].parent # 0 /\ (sc[e].parent = a \/ IsBelow(sc, sc[e].parent, a))

\* The bodies of the writeback query below entity a.
BodiesBelow(ws, sc, a) ==
    {b \in DOMAIN sc : /\ IsBelow(sc, b, a)
                       /\ InWritebackQuery(sc, b)
                       /\ sc[b].handle[1] \in DOMAIN ws[sc[b].link[1]].bodies}

\* A writeback has dealt with the body of the entity: the transform cached for it
\* is the pose the engine has for it.
CachedIsPose(ws, sc, b) ==
    LET world == ws[sc[b].link[1]]
        handle == sc[b].handle[1]
    IN /\ handle \in DOMAIN world.last_body_transform_set
       /\ transform_to_iso(world.last_body_transform_set[handle]) = world.bodies[handle].position

\* C27: in a writeback pass the recursion goes on below a child entity that has
\* no physics handle, handing down what the child was handed, so that every body
\* below such an entity is written back in the pass.
C27_HandleLessChildPassesThrough ==
    [][last'.op = "writeback_rigid_bodies" /\ last'.result.value =>
          \A c \in DOMAIN scene :
             scene[c].parent # 0 /\ scene[c].handle = None /\ ~scene[c].disabled =>
                \A b \in BodiesBelow(worlds, scene, c) : CachedIsPose(worlds', scene', b)]_vars

\* The transform an entity hands down to its children in a writeback pass that
\* leaves the worlds ws: the one cached for its body, and for a disabled entity
\* its own transform, composed with what its parent hands down when it has one.
RECURSIVE HandedTransform(_, _, _)
HandedTransform(ws, sc, e) ==
    IF InWritebackQuery(sc, e)
    THEN ws[sc[e].link[1]].last_body_transform_set[sc[e].handle[1]]
    ELSE IF sc[e].parent = 0 THEN sc[e].transform
    ELSE mul_transform(HandedTransform(ws, sc, sc[e].parent), sc[e].transform)

\* The disabled entities a writeback pass comes to: those with only bodies of the
\* writeback query and disabled entities above them.
DisabledReached(sc) ==
    {x \in DOMAIN sc :
        /\ sc[x].disabled
        /\ \A a \in DOMAIN sc : IsBelow(sc, x, a) => InWritebackQuery(sc, a) \/ sc[a].disabled}

\* C28: a writeback pass leaves the components and the body of a disabled entity,
\* top-level or not, as they are, and goes on below it: a body that is its child
\* is written back, composed onto the disabled entity's own transform (onto the
\* parent's composed with it when it has a parent), and relative to that
\* transform alone under a disabled root, whose delta is the identity.
C28_DisabledIsPivot ==
    [][last'.op = "writeback_rigid_bodies" /\ last'.result.value =>
          \A x \in DisabledReached(scene) :
             /\ scene'[x] = scene[x]
             /\ scene[x].handle # None =>
                   LET old == worlds[scene[x].link[1]]
                       new == worlds'[scene[x].link[1]]
                       h == scene[x].handle[1]
                   IN /\ new.bodies[h] = old.bodies[h]
                      /\ new.last_body_transform_set[h] = old.last_body_transform_set[h]
             /\ \A b \in BodiesBelow(worlds, scene, x) :
                   scene[b].parent = x =>
                      /\ CachedIsPose(worlds', scene', b)
                      /\ worlds'[scene[b].link[1]].last_body_transform_set[scene[b].handle[1]]
                            = mul_transform(HandedTransform(worlds', scene, x),
                                            scene'[b].transform)
                      /\ scene[x].parent = 0 =>
                            scene'[b].transform.translation =
                               VSub(BodyOf(scene[b].link[1], b).position.translation,
                                    scene[x].transform.translation)]_vars

\* A writeback pass has written the transform of a body that moved, below a
\* disabled child of a disabled root, which have the transforms they were
\* authored with.
C28_Witness ==
    /\ last.op = "writeback_rigid_bodies"
    /\ last.result.value
    /\ \E b \in DOMAIN scene :
          LET x == scene[b].parent
              r == scene[x].parent
          IN /\ InWritebackQuery(scene, b)
             /\ x # 0 /\ scene[x].disabled
             /\ r # 0 /\ scene[r].disabled /\ scene[r].parent = 0
             /\ scene[x] = Spawned(authored)[x] /\ scene[r] = Spawned(authored)[r]
             /\ scene[b].transform # authored[b].transform
             /\ "Transform" \in scene[b].changed
             /\ CachedIsPose(worlds, scene, b)

-----------------------------------------------------------------------------
(* Claims about apply_changing_worlds, checked under SpecWorldChange *)

\* The entities whose PhysicsWorld was added or changed since the system ran last.
Retagged(sc) == {e \in DOMAIN sc : sc[e].link # None /\ sc[e].link_changed}

\* The entity has a body or a collider in world w.
InWorld(ws, e, w) ==
    /\ w \in DOMAIN ws
    /\ e \in DOMAIN ws[w].entity2body \cup DOMAIN ws[w].entity2collider

\* The entity carries none of the four handle components.
HandlesRemoved(sc, e) ==
    /\ sc[e].handle = None
    /\ sc[e].collider_handle = None
    /\ sc[e].impulse_joint_handle = None
    /\ sc[e].multibody_joint_handle = None

\* The entity is tagged and has a body in world w: the update returns at it.
SettledIn(ws, sc, e, w) ==
    /\ sc[e].link # None
    /\ w \in DOMAIN ws
    /\ e \in DOMAIN ws[w].entity2body

\* The step is a run of apply_changing_worlds in which the tag of exactly one
\* entity was added or changed, to a world the entity has no body in yet.
OneEntityRetagged ==
    /\ stage = "Update" /\ stage' # "Update"
    /\ last'.op = "apply_changing_worlds"
    /\ Cardinality(Retagged(scene)) = 1
    /\ \A e \in Retagged(scene) : ~SettledIn(worlds, scene, e, scene[e].link[1])

RECURSIVE ReachedFrom(_, _, _, _, _)
ReachedFrom(ws, sc, d, a, w) ==
    \/ d = a
    \/ /\ sc[d].parent # 0
       /\ ~SettledIn(ws, sc, sc[d].parent, w)
       /\ ReachedFrom(ws, sc, sc[d].parent, a, w)

-----------------------------------------------------------------------------
(* The event sink under the engine's parallel callbacks *)

\* The callback invocations the engine makes in one step.
MaxWriters == 2

\* The two queues of a world and the stream each is flushed to.
SinkNames == {"collision_events_to_send", "contact_force_events_to_send"}

StreamOf(sink) == IF sink = "collision_events_to_send" THEN "collision" ELSE "contact_force"

SinkOf(event) ==
    IF event.kind = "ContactForce" THEN "contact_force_events_to_send"
    ELSE "collision_events_to_send"

\* The holder of a lock: 0 when it is free, the number of the callback that
\* holds it, or the flush.
FlushHolder == MaxWriters + 1

\* The lock is taken although a callback holds it.
LockAlwaysFree(lock, sink) == TRUE

\* RwLock::write returns when no one holds the lock.
LockFree(lock, sink) == lock[sink] = 0

\* The event callback t of the frame reports.
CallbackEvent(t, kind, frame) ==
    [kind |-> kind, entity1 |-> t, entity2 |-> MaxWriters + 1 + frame, removed |-> FALSE]

\* The position of the step, of its callbacks and of the flush.
SinkStage(phase, writers, lock, flush, sent_before) ==
    [phase |-> phase, writers |-> writers, lock |-> lock, flush |-> flush,
     sent_before |-> sent_before]

NoLock == [sink \in SinkNames |-> 0]

InitSink ==
    /\ worlds = (DEFAULT_WORLD_ID :> RapierWorldDefault)
    /\ next_world_id = 1
    /\ timestep_mode = DefaultTimestepMode
    /\ diff = 0
    /\ interpolation = EmptyMap
    /\ event_stream = [collision |-> <<>>, contact_force |-> <<>>, read |-> 0]
    /\ frames = 0
    /\ scene = EmptyMap
    /\ authored = EmptyMap
    /\ removed = NoneRemoved
    /\ returned = <<>>
    /\ last = Called("add_world", DEFAULT_WORLD_ID, Ok(None))
    /\ stage = SinkStage("Idle", <<>>, NoLock, "done",
                         [collision |-> 0, contact_force |-> 0])

\* pipeline.step starts: the engine will call the event handler n times, from
\* threads of its own.
SinkStepBegin ==
    /\ stage.phase = "Idle"
    /\ frames < MaxFrames
    /\ \E n \in 0..MaxWriters :
          \E kinds \in [1..n -> {"Started", "ContactForce"}] :
             stage' = SinkStage("Stepping",
                                [t \in 1..n |->
                                    [pc |-> "start",
                                     event |-> CallbackEvent(t, kinds[t], frames)]],
                                NoLock, "idle",
                                [collision |-> Len(event_stream.collision),
                                 contact_force |-> Len(event_stream.contact_force)])
    /\ last' = Called("world_step_simulation", DEFAULT_WORLD_ID, Ok(None))
    /\ UNCHANGED <<worlds, next_world_id, timestep_mode, diff, interpolation, event_stream,
                   frames, scene, removed, authored, returned>>

\* handle_collision_event / handle_contact_force_event: `events.write()`.
WriterLock(t) ==
    /\ stage.phase = "Stepping"
    /\ t \in DOMAIN stage.writers
    /\ stage.writers[t].pc = "start"
    /\ LockFree(stage.lock, SinkOf(stage.writers[t].event))
    /\ stage' = [stage EXCEPT !.writers[t].pc = "locked",
                              !.lock[SinkOf(stage.writers[t].event)] = t]
    /\ UNCHANGED <<worlds, next_world_id, timestep_mode, diff, interpolation, event_stream,
                   frames, scene, removed, authored, returned, last>>

\* `events.push(event)` through the guard.
WriterPush(t) ==
    /\ stage.phase = "Stepping"
    /\ t \in DOMAIN stage.writers
    /\ stage.writers[t].pc = "locked"
    /\ worlds' = [worlds EXCEPT ![DEFAULT_WORLD_ID][SinkOf(stage.writers[t].event)] =
                                    Append(@, stage.writers[t].event)]
    /\ stage' = [stage EXCEPT !.writers[t].pc = "pushed"]
    /\ UNCHANGED <<next_world_id, timestep_mode, diff, interpolation, event_stream, frames,
                   scene, removed, authored, returned, last>>

\* The guard is dropped.
WriterUnlock(t) ==
    /\ stage.phase = "Stepping"
    /\ t \in DOMAIN stage.writers
    /\ stage.writers[t].pc = "pushed"
    /\ stage' = [stage EXCEPT !.writers[t].pc = "done",
                              !.lock[SinkOf(stage.writers[t].event)] = 0]
    /\ UNCHANGED <<worlds, next_world_id, timestep_mode, diff, interpolation, event_stream,
                   frames, scene, removed, authored, returned, last>>

\* pipeline.step returns when its callbacks have returned, and with it
\* RapierWorld::step_simulation, which borrowed the world mutably.
SinkStepReturn ==
    /\ stage.phase = "Stepping"
    /\ \A t \in DOMAIN stage.writers : stage.writers[t].pc = "done"
    /\ stage' = [stage EXCEPT !.phase = "Returned",
                              !.flush = "collision_events_to_send"]
    /\ UNCHANGED <<worlds, next_world_id, timestep_mode, diff, interpolation, event_stream,
                   frames, scene, removed, authored, returned, last>>

\* send_bevy_events: `if let Ok(mut events) = self.<sink>.write()`.
FlushLock ==
    /\ stage.phase = "Returned"
    /\ LockFree(stage.lock, stage.flush)
    /\ stage' = [stage EXCEPT !.phase = "Flushing", !.lock[stage.flush] = FlushHolder]
    /\ UNCHANGED <<worlds, next_world_id, timestep_mode, diff, interpolation, event_stream,
                   frames, scene, removed, authored, returned, last>>

\* The events of the sink are sent in order, and the sink is cleared.
FlushSend ==
    /\ stage.phase = "Flushing"
    /\ event_stream' = [event_stream EXCEPT
                          ![StreamOf(stage.flush)] =
                              @ \o worlds[DEFAULT_WORLD_ID][stage.flush]]
    /\ worlds' = [worlds EXCEPT ![DEFAULT_WORLD_ID][stage.flush] = <<>>]
    /\ stage' = [stage EXCEPT !.phase = "Cleared"]
    /\ UNCHANGED <<next_world_id, timestep_mode, diff, interpolation, frames, scene, removed,
                   authored, returned, last>>

\* The guard is dropped at the end of the `if let`; after the second sink the
\* flush has returned and the host update is over.
FlushUnlock ==
    /\ stage.phase = "Cleared"
    /\ IF stage.flush = "collision_events_to_send"
       THEN /\ stage' = [stage EXCEPT !.phase = "Returned",
                                      !.lock[stage.flush] = 0,
                                      !.flush = "contact_force_events_to_send"]
            /\ UNCHANGED <<frames, last>>
       ELSE /\ stage' = [stage EXCEPT !.phase = "Idle",
                                      !.lock[stage.flush] = 0,
                                      !.flush = "done"]
            /\ frames' = frames + 1
            /\ last' = Called("send_bevy_events", DEFAULT_WORLD_ID, Ok(None))
    /\ UNCHANGED <<worlds, next_world_id, timestep_mode, diff, interpolation, event_stream,
                   scene, removed, authored, returned>>

NextSink ==
    \/ SinkStepBegin
    \/ \E t \in 1..MaxWriters : WriterLock(t)
    \/ \E t \in 1..MaxWriters : WriterPush(t)
    \/ \E t \in 1..MaxWriters : WriterUnlock(t)
    \/ SinkStepReturn
    \/ FlushLock
    \/ FlushSend
    \/ FlushUnlock

SpecSink == InitSink /\ [][NextSink]_vars

-----------------------------------------------------------------------------
(* Claims about the event sink, checked under SpecSink *)

\* The callbacks of the step that report to the sink.
WritersOf(sink) == {t \in DOMAIN stage.writers : SinkOf(stage.writers[t].event) = sink}

\* The callbacks that have pushed their event.
Pushed(sink) == {t \in WritersOf(sink) : stage.writers[t].pc \in {"pushed", "done"}}

\* The flush of this host update has sent and cleared the sink.
Flushed(sink) ==
    \/ stage.flush = "done"
    \/ stage.flush = sink /\ stage.phase = "Cleared"
    \/ stage.flush = "contact_force_events_to_send" /\ sink = "collision_events_to_send"

\* The events of the step where they are now: in the sink, or in what the flush
\* of this host update has sent.
Stored(sink) ==
    IF Flushed(sink)
    THEN SubSeq(event_stream[StreamOf(sink)], stage.sent_before[StreamOf(sink)] + 1,
                Len(event_stream[StreamOf(sink)]))
    ELSE worlds[DEFAULT_WORLD_ID][sink]

\* C32: while callbacks push events concurrently during a step, every pushed
\* event is stored exactly once; the flush after the step sends all of them and
\* leaves the sink empty; a callback writes only while it holds the lock, and
\* never while the flush holds it.
C32_SinkStoresEachEventOnce ==
    \A sink \in SinkNames :
       /\ Len(Stored(sink)) = Cardinality(Pushed(sink))
       /\ {Stored(sink)[i] : i \in 1..Len(Stored(sink))}
             = {stage.writers[t].event : t \in Pushed(sink)}
       /\ Flushed(sink) =>
             /\ worlds[DEFAULT_WORLD_ID][sink] = <<>>
             /\ Pushed(sink) = WritersOf(sink)
       /\ \A t \in WritersOf(sink) :
             stage.writers[t].pc \in {"locked", "pushed"} => stage.lock[sink] = t
       /\ stage.lock[sink] = FlushHolder =>
             \A t \in WritersOf(sink) : stage.writers[t].pc = "done"

\* The flush has sent the two events that two callbacks pushed to the same sink
\* in one step, and has left the sink empty.
C32_Witness ==
    /\ stage.phase = "Idle"
    /\ last.op = "send_bevy_events"
    /\ Cardinality(WritersOf("collision_events_to_send")) = 2
    /\ Len(Stored("collision_events_to_send")) = 2
    /\ worlds[DEFAULT_WORLD_ID].collision_events_to_send = <<>>

-----------------------------------------------------------------------------
(* One stepper call, loop iteration by loop iteration *)

\* The values the fields of a TimestepMode can hold, also those the caller
\* should not configure: a dt of zero and no sub-steps.
LoopModes ==
    {Fixed(k * TimeUnit, n) : k \in 0..MaxDtUnits, n \in 0..MaxSubsteps}
    \cup {Variable(k * TimeUnit, ts, n) :
             k \in 0..MaxDtUnits, ts \in TimeScales, n \in 0..MaxSubsteps}
    \cup {Interpolated(k * TimeUnit, ts, n) :
             k \in 0..MaxDtUnits, ts \in TimeScales, n \in 0..MaxSubsteps}

\* substep_integration_parameters.dt of the arm; with no sub-steps the quotient
\* is not finite and no step reads it.
SubstepDt(mode, elapsed) ==
    IF mode.substeps = 0 THEN 0
    ELSE CASE mode.kind = "Interpolated" -> (mode.dt \div mode.substeps) * mode.time_scale
           [] mode.kind = "Variable" ->
                Min(elapsed * mode.time_scale, mode.dt) \div mode.substeps
           [] mode.kind = "Fixed" -> mode.dt \div mode.substeps

\* The accumulator is left as it was.
DiffAfterStepKept(d, dt) == d

\* `sim_to_render_time.diff -= dt`
DiffAfterStep(d, dt) == d - dt

InitLoop ==
    /\ worlds = (DEFAULT_WORLD_ID :> WorldWithBody(1))
    /\ next_world_id = 1
    /\ timestep_mode \in LoopModes
    /\ diff = 0
    /\ interpolation = (1 :> [handle |-> 0, start |-> None, end |-> None])
    /\ event_stream = [collision |-> <<>>, contact_force |-> <<>>, read |-> 0]
    /\ frames = 0
    /\ scene = EmptyMap
    /\ authored = EmptyMap
    /\ removed = NoneRemoved
    /\ returned = <<>>
    /\ last = Called("add_world", DEFAULT_WORLD_ID, Ok(None))
    /\ stage = [pc |-> "idle", todo |-> 0, sdt |-> 0, entered |-> 0]

\* RapierWorld::step_simulation is entered: the arm of the mode sets
\* integration_parameters.dt, and the Interpolated arm adds the frame's time.
LoopCallBegin ==
    /\ stage.pc = "idle"
    /\ frames < MaxFrames
    /\ \E elapsed \in ElapsedValues :
          /\ worlds' = [worlds EXCEPT
                          ![DEFAULT_WORLD_ID].integration_parameters_dt =
                              IF timestep_mode.kind = "Variable"
                              THEN Min(elapsed * timestep_mode.time_scale, timestep_mode.dt)
                              ELSE timestep_mode.dt]
          /\ diff' = IF timestep_mode.kind = "Interpolated" THEN diff + elapsed ELSE diff
          /\ stage' = [pc |-> IF timestep_mode.kind = "Interpolated" THEN "while" ELSE "for",
                       todo |-> timestep_mode.substeps,
                       sdt |-> SubstepDt(timestep_mode, elapsed),
                       entered |-> diff']
          /\ last' = Called("world_step_simulation", DEFAULT_WORLD_ID, Ok(elapsed))
    /\ UNCHANGED <<next_world_id, timestep_mode, interpolation, event_stream, frames, scene,
                   removed, authored, returned>>

\* `while sim_to_render_time.diff > 0.0`, and the snapshot before the last step.
LoopWhileTest ==
    /\ stage.pc = "while"
    /\ IF diff > 0
       THEN /\ stage' = [stage EXCEPT !.pc = "for", !.todo = timestep_mode.substeps]
            /\ interpolation' =
                  IF diff - timestep_mode.dt <= 0
                  THEN SnapshotInterpolation(worlds[DEFAULT_WORLD_ID], interpolation)
                  ELSE interpolation
       ELSE /\ stage' = [stage EXCEPT !.pc = "returned"]
            /\ UNCHANGED interpolation
    /\ UNCHANGED <<worlds, next_world_id, timestep_mode, diff, event_stream, frames, scene,
                   removed, authored, returned, last>>

\* One iteration of `for _ in 0..substeps { self.pipeline.step(..) }`.
LoopForStep ==
    /\ stage.pc = "for"
    /\ stage.todo > 0
    /\ worlds' = [worlds EXCEPT
                    ![DEFAULT_WORLD_ID] =
                        PipelineStep(@, stage.sdt, EventHandlerFor(@, FALSE))]
    /\ stage' = [stage EXCEPT !.todo = @ - 1]
    /\ UNCHANGED <<next_world_id, timestep_mode, diff, interpolation, event_stream, frames,
                   scene, removed, authored, returned, last>>

\* The for loop is over: the Interpolated arm takes dt off the accumulator and
\* tests again, the other arms return.
LoopForEnd ==
    /\ stage.pc = "for"
    /\ stage.todo = 0
    /\ IF timestep_mode.kind = "Interpolated"
       THEN /\ diff' = DiffAfterStep(diff, timestep_mode.dt)
            /\ stage' = [stage EXCEPT !.pc = "while"]
       ELSE /\ stage' = [stage EXCEPT !.pc = "returned"]
            /\ UNCHANGED diff
    /\ UNCHANGED <<worlds, next_world_id, timestep_mode, interpolation, event_stream, frames,
                   scene, removed, authored, returned, last>>

\* The call has returned to the host update, which ends.
LoopCallReturn ==
    /\ stage.pc = "returned"
    /\ stage' = [stage EXCEPT !.pc = "idle"]
    /\ frames' = frames + 1
    /\ UNCHANGED <<worlds, next_world_id, timestep_mode, diff, interpolation, event_stream,
                   scene, removed, authored, returned, last>>

NextLoop ==
    \/ LoopCallBegin
    \/ LoopWhileTest
    \/ LoopForStep
    \/ LoopForEnd
    \/ LoopCallReturn

\* A call that was entered runs on: the code is sequential and nothing blocks it.
SpecLoop ==
    /\ InitLoop
    /\ [][NextLoop]_vars
    /\ WF_vars(LoopWhileTest \/ LoopForStep \/ LoopForEnd \/ LoopCallReturn)

-----------------------------------------------------------------------------
(* Claims about termination of the stepper, checked under SpecLoop *)

\* C33 (as stated): for every timestep mode, dt, substeps and elapsed time a
\* stepper call that was entered returns.
C33_EveryCallReturns ==
    (stage.pc \in {"while", "for"}) ~> (stage.pc = "returned")

\* C33 (amended): a stepper call in Fixed or Variable mode returns, and a call in
\* Interpolated mode returns when dt is positive.
C33_CallReturnsForPositiveDt ==
    (/\ stage.pc \in {"while", "for"}
     /\ timestep_mode.kind = "Interpolated" => timestep_mode.dt > 0)
       ~> (stage.pc = "returned")

\* An Interpolated call that was entered with more than dt accumulated has
\* returned, after more than one pass of the loop.
C33_Witness ==
    /\ stage.pc = "returned"
    /\ timestep_mode.kind = "Interpolated"
    /\ timestep_mode.dt > 0
    /\ stage.entered > timestep_mode.dt
    /\ diff <= 0
    /\ worlds[DEFAULT_WORLD_ID].bodies[0].position.translation # ZERO

-----------------------------------------------------------------------------
(* Bodies whose type, pose, velocity and sleep flag the host edits in one frame *)

RigidBodyTypes == {"Dynamic", "Fixed", "KinematicPositionBased"}

\* Some(v) for a component the host writes, None for one it leaves alone.
Maybe(values) == {None} \cup {Some(v) : v \in values}

\* The host writes some of RigidBody, Transform, Velocity and Sleeping of an
\* entity in the same frame.
edit_body(e, rigid_body, transform, velocity, sleeping) ==
    /\ e \in DOMAIN scene
    /\ scene' = [scene EXCEPT
                   ![e].rigid_body = IF rigid_body # None THEN rigid_body ELSE @,
                   ![e].transform = IF transform # None THEN transform[1] ELSE @,
                   ![e].velocity = IF velocity # None THEN velocity ELSE @,
                   ![e].sleeping = IF sleeping # None THEN sleeping ELSE @,
                   ![e].changed = @ \cup (IF rigid_body # None THEN {"RigidBody"} ELSE {})
                                    \cup (IF transform # None THEN {"Transform"} ELSE {})
                                    \cup (IF velocity # None THEN {"Velocity"} ELSE {})
                                    \cup (IF sleeping # None THEN {"Sleeping"} ELSE {})]
    /\ last' = [Called("edit_body", e, Ok(None)) EXCEPT !.calls = last.calls]
    /\ UNCHANGED <<worlds, next_world_id, timestep_mode, diff, interpolation, event_stream,
                   frames, removed, returned>>

\* Top-level bodies of every type, at rest, with a Sleeping component.
BodyEditScenes ==
    [1..MaxEntity ->
        {[EntityComponents(0, Transform(<<0, LengthUnit>>, 0, 1), Some(ZERO),
                           Some(rigid_body), FALSE, None, None)
             EXCEPT !.sleeping = Some(FALSE)] : rigid_body \in RigidBodyTypes}]

InitBodyEdits ==
    /\ \E sc \in BodyEditScenes :
          /\ worlds = [w \in {DEFAULT_WORLD_ID} |-> PopulatedWorld(sc, w)]
          /\ scene = Spawned(sc)
          /\ authored = sc
    /\ interpolation = EmptyMap
    /\ next_world_id = 1
    /\ diff = 0
    /\ event_stream = [collision |-> <<>>, contact_force |-> <<>>, read |-> 0]
    /\ frames = 0
    /\ removed = NoneRemoved
    /\ returned = <<>>
    /\ last = Called("init_rigid_bodies", -1, Ok(None))
    /\ stage = "Update"
    /\ timestep_mode = DefaultTimestepMode

\* The frames in which the host edits a body.
MaxEditFrames == 1

\* The host's systems edit one entity before the physics schedule.
EditBodyStage ==
    /\ stage = "Update"
    /\ frames < MaxEditFrames
    /\ \A e \in DOMAIN scene : scene[e].changed = {}
    /\ \E e \in DOMAIN scene :
          /\ \E rigid_body \in Maybe(RigidBodyTypes),
                transform \in Maybe({TeleportTarget(scene[e].transform)}),
                velocity \in Maybe({<<1, 0>>}),
                sleeping \in Maybe({TRUE}) :
                /\ <<rigid_body, transform, velocity, sleeping>> # <<None, None, None, None>>
                /\ edit_body(e, rigid_body, transform, velocity, sleeping)
    /\ stage' = "Update"
    /\ UNCHANGED authored

NextBodyEdits ==
    \/ EditBodyStage
    \/ UserChangesStage
    \/ UserSyncVelStage
    \/ UserStepStage
    \/ UserWritebackStage

SpecBodyEdits == InitBodyEdits /\ [][NextBodyEdits]_vars

-----------------------------------------------------------------------------
(* Claims about the order of the user changes, checked under SpecBodyEdits *)

\* The step is a run of apply_rigid_body_user_changes.
UserChangesRun == stage = "Update" /\ stage' = "UserSyncVel"

\* C34: in one run of apply_rigid_body_user_changes the changes of a body are
\* applied in the order sleeping, body type, transform, velocity: the body has
\* the new type; a velocity set together with a change from Fixed to Dynamic
\* takes effect; a transform set together with a change from
\* KinematicPositionBased to another type sets the current position and no next
\* kinematic position; and a body put to sleep and given a velocity is awake.
C34_UserChangesInOrder ==
    [][UserChangesRun =>
          \A e \in DOMAIN scene :
             LET ent == scene[e]
                 rb == BodyOf(ent.link[1], e)
                 after == worlds'[ent.link[1]].bodies[ent.handle[1]]
                 pos == transform_to_iso(GlobalTransform(scene, e))
                 edited == /\ "Transform" \in ent.changed
                           /\ GlobalTransform(scene, e)
                                 # worlds[ent.link[1]].last_body_transform_set[ent.handle[1]]
             IN /\ after.body_type = ent.rigid_body[1]
                /\ ("Velocity" \in ent.changed /\ ent.rigid_body[1] = "Dynamic")
                      => after.linvel = ent.velocity[1] /\ ~after.sleeping
                /\ (edited /\ ent.rigid_body[1] # "KinematicPositionBased")
                      => after.position = pos /\ after.next_position = None
                /\ (edited /\ ent.rigid_body[1] = "KinematicPositionBased")
                      => after.position = rb.position /\ after.next_position = Some(pos)]_vars

\* apply_rigid_body_user_changes has run in the first frame on a body that was
\* authored Fixed and was made Dynamic, moved and given a velocity in that
\* frame: the body is dynamic, where the host put it, and has the velocity.
C34_Witness ==
    /\ last.op = "apply_rigid_body_user_changes"
    /\ frames = 0
    /\ \E e \in DOMAIN scene :
          /\ authored[e].rigid_body = Some("Fixed")
          /\ scene[e].rigid_body = Some("Dynamic")
          /\ scene[e].transform # authored[e].transform
          /\ BodyOf(scene[e].link[1], e).body_type = "Dynamic"
          /\ BodyOf(scene[e].link[1], e).linvel = <<1, 0>>
          /\ BodyOf(scene[e].link[1], e).position
                = transform_to_iso(GlobalTransform(scene, e))

\* The same for a body that was authored KinematicPositionBased: it is at the
\* pose the host gave it, with no next kinematic position pending.
C34_WitnessKinematic ==
    /\ last.op = "apply_rigid_body_user_changes"
    /\ frames = 0
    /\ \E e \in DOMAIN scene :
          /\ authored[e].rigid_body = Some("KinematicPositionBased")
          /\ scene[e].rigid_body = Some("Dynamic")
          /\ scene[e].transform # authored[e].transform
          /\ BodyOf(scene[e].link[1], e).next_position = None
          /\ BodyOf(scene[e].link[1], e).position
                = transform_to_iso(GlobalTransform(scene, e))

-----------------------------------------------------------------------------
(* The world of an entity, for the systems of systems_old: plugin::get_world *)

\* The fault a failed `expect` raises: the system does not return and the host
\* stops.
Panic(world_id) == [tag |-> "Panic", world_id |-> world_id, value |-> None]

\* get_world(world_within, context): the world of the entity's PhysicsWorld, or
\* of DEFAULT_WORLD_ID without one; `expect` faults when it is not registered.
get_world_of(ws, sc, e) ==
    LET world_id == LinkOf(sc, e)
    IN IF world_id \in DOMAIN ws THEN Ok(world_id) ELSE Panic(world_id)

\* The entities of the query `todo` whose world is not registered.
Faulting(ws, sc, todo) == {e \in todo : get_world_of(ws, sc, e).tag # "Ok"}

\* The entities of the query `todo` a system has dealt with when it returns or
\* faults: those before the first one whose world is not registered.
Processed(ws, sc, todo) ==
    {e \in todo : \A other \in Faulting(ws, sc, todo) : e < other}

\* What the run of a system over the query `todo` ends with.
RunResult(ws, sc, todo) ==
    IF Faulting(ws, sc, todo) = {} THEN Ok(None)
    ELSE get_world_of(ws, sc, First(Faulting(ws, sc, todo)))

\* Query<RigidBodyComponents, Without<RapierRigidBodyHandle>>
InitBodiesQuery(sc) == {e \in DOMAIN sc : sc[e].rigid_body # None /\ sc[e].handle = None}

\* Query<(ColliderComponents, ..), Without<RapierColliderHandle>>
InitCollidersQuery(sc) == {e \in DOMAIN sc : sc[e].collider /\ sc[e].collider_handle = None}

\* Query<RigidBodyWritebackComponents, Without<RigidBodyDisabled>> over the
\* top-level entities: every component of the query is optional.
WritebackOldQuery(sc) == {e \in top_entities(sc) : ~sc[e].disabled}

\* The body of the loop of systems_old::writeback_rigid_bodies over the top-level
\* entities `todo`, none of which has children or a TransformInterpolation.
RECURSIVE WritebackOldTops(_, _, _)
WritebackOldTops(ws, sc, todo) ==
    IF todo = <<>> THEN [worlds |-> ws, scene |-> sc]
    ELSE LET e == Head(todo)
             id == get_world_of(ws, sc, e).value
             world == ws[id]
         IN IF e \notin DOMAIN world.entity2body
               \/ world.entity2body[e] \notin DOMAIN world.bodies
            THEN WritebackOldTops(ws, sc, Tail(todo))
            ELSE LET handle == world.entity2body[e]
                     rb == world.bodies[handle]
                     pose == iso_to_transform(rb.position)
                 IN WritebackOldTops(
                       [ws EXCEPT ![id].last_body_transform_set =
                           (handle :> pose) @@ @],
                       [sc EXCEPT
                          ![e].transform.rotation = pose.rotation,
                          ![e].transform.translation = pose.translation,
                          ![e].velocity = IF @ # None THEN Some(rb.linvel) ELSE @,
                          ![e].sleeping = IF @ # None THEN Some(rb.sleeping) ELSE @],
                       Tail(todo))

\* The frames of a host that spawns its entities, some tagged with a world and
\* some not, and removes worlds between the frames. Every entity is at the top of
\* the hierarchy and no component changes after the spawn, so that the systems of
\* the frame that look up the world of an entity are init_rigid_bodies,
\* init_colliders and writeback_rigid_bodies.
FaultScenes ==
    {sc \in [1..MaxSceneEntities ->
               {[EntityComponents(0, TransformIDENTITY, None, rigid_body, disabled, None, link)
                    EXCEPT !.collider = collider] :
                   rigid_body \in {None, Some("Dynamic")}, disabled \in BOOLEAN,
                   collider \in BOOLEAN, link \in {None, Some(1)}}] :
        \A e \in DOMAIN sc : /\ sc[e].rigid_body # None \/ sc[e].collider
                             /\ sc[e].disabled => sc[e].rigid_body # None}

InitFault ==
    /\ worlds = [w \in ChangeWorldIds |-> RapierWorldDefault]
    /\ next_world_id = Cardinality(ChangeWorldIds)
    /\ timestep_mode = DefaultTimestepMode
    /\ diff = 0
    /\ interpolation = EmptyMap
    /\ event_stream = [collision |-> <<>>, contact_force |-> <<>>, read |-> 0]
    /\ frames = 0
    /\ scene \in FaultScenes
    /\ authored = scene
    /\ removed = NoneRemoved
    /\ returned = [i \in 1..(Cardinality(ChangeWorldIds) - 1) |-> i]
    /\ last = Called("spawn", -1, Ok(None))
    /\ stage = "Update"

\* The stage after a system of the frame: the host stops where a system faulted.
StageAfter(result, next) == IF result.tag = "Ok" THEN next ELSE "Faulted"

\* The host removes a world between two frames.
RemoveWorldStage ==
    /\ stage = "Update"
    /\ \E world_id \in 0..MaxWorldId : remove_world(world_id)
    /\ UNCHANGED <<stage, authored>>

\* systems_old::init_rigid_bodies, its fault included
FaultInitRigidBodiesStage ==
    /\ stage = "Update"
    /\ frames < MaxFrames
    /\ \E todo \in {InitBodiesQuery(scene)} :
       \E made \in {InitRigidBodies(worlds, scene, Ascending(Processed(worlds, scene, todo)))} :
          /\ worlds' = made.worlds
          /\ scene' = made.scene
          /\ last' = Called("init_rigid_bodies", -1, RunResult(worlds, scene, todo))
          /\ stage' = StageAfter(RunResult(worlds, scene, todo), "InitColliders")
    /\ UNCHANGED <<next_world_id, timestep_mode, diff, interpolation, event_stream, frames,
                   removed, returned, authored>>

\* systems_old::init_colliders, its fault included
FaultInitCollidersStage ==
    /\ stage = "InitColliders"
    /\ \E todo \in {InitCollidersQuery(scene)} :
       \E made \in {InitColliders(worlds, scene, Ascending(Processed(worlds, scene, todo)))} :
          /\ worlds' = made.worlds
          /\ scene' = made.scene
          /\ last' = Called("init_colliders", -1, RunResult(worlds, scene, todo))
          /\ stage' = StageAfter(RunResult(worlds, scene, todo), "Writeback")
    /\ UNCHANGED <<next_world_id, timestep_mode, diff, interpolation, event_stream, frames,
                   removed, returned, authored>>

\* systems_old::writeback_rigid_bodies, its fault included; it ends the frame.
FaultWritebackStage ==
    /\ stage = "Writeback"
    /\ \E todo \in {WritebackOldQuery(scene)} :
       \E made \in {WritebackOldTops(worlds, scene,
                                     Ascending(Processed(worlds, scene, todo)))} :
          /\ worlds' = made.worlds
          /\ scene' = made.scene
          /\ last' = Called("writeback_rigid_bodies", -1, RunResult(worlds, scene, todo))
          /\ stage' = StageAfter(RunResult(worlds, scene, todo), "Update")
    /\ frames' = frames + 1
    /\ UNCHANGED <<next_world_id, timestep_mode, diff, interpolation, event_stream,
                   removed, returned, authored>>

NextFault ==
    \/ RemoveWorldStage
    \/ FaultInitRigidBodiesStage
    \/ FaultInitCollidersStage
    \/ FaultWritebackStage

SpecFault == InitFault /\ [][NextFault]_vars

\* The systems of the frame that look up the world of each entity of their query.
FaultSystems == {"init_rigid_bodies", "init_colliders", "writeback_rigid_bodies"}

\* The query of the system that runs at the stage.
QueryAt(st, sc) ==
    IF st = "Update" THEN InitBodiesQuery(sc)
    ELSE IF st = "InitColliders" THEN InitCollidersQuery(sc)
    ELSE IF st = "Writeback" THEN WritebackOldQuery(sc)
    ELSE {}

\* A system of the frame has run.
SystemRan == last'.op \in FaultSystems /\ last' # last /\ stage # "Faulted"

\* The run of a system faults exactly when an entity of its query has a world,
\* tagged or 0 without a tag, that is not registered: it neither skips the entity
\* nor returns WorldNotFound.
FaultsOnUnregistered ==
    LET unregistered ==
           {e \in QueryAt(stage, scene) :
              (IF scene[e].link # None THEN scene[e].link[1] ELSE 0) \notin DOMAIN worlds}
    IN IF unregistered # {}
       THEN /\ last'.result.tag = "Panic"
            /\ stage' = "Faulted"
            /\ last'.result.world_id \notin DOMAIN worlds
       ELSE last'.result = Ok(None) /\ stage' # "Faulted"

\* A system that returns has given every untagged entity of its query its body or
\* collider in world 0, and every tagged one in the world of its tag.
UsesWorldOfTag ==
    last'.result.tag = "Ok" =>
       \A e \in QueryAt(stage, scene) :
          LET id == IF scene[e].link # None THEN scene[e].link[1] ELSE 0
          IN /\ stage = "Update" => e \in DOMAIN worlds'[id].entity2body
             /\ stage = "InitColliders" => e \in DOMAIN worlds'[id].entity2collider

\* An entity with a body or a collider and without a PhysicsWorld.
UntaggedPhysics(sc) ==
    {e \in DOMAIN sc : sc[e].link = None /\ (sc[e].rigid_body # None \/ sc[e].collider)}

\* A frame has run to its end after the default world was removed.
FrameEndedWithoutDefault ==
    /\ stage = "Update"
    /\ last.op = "writeback_rigid_bodies"
    /\ DEFAULT_WORLD_ID \notin DOMAIN worlds

C35_WitnessDisabled ==
    /\ FrameEndedWithoutDefault
    /\ \E e \in UntaggedPhysics(scene) : scene[e].disabled /\ scene[e].handle # None

-----------------------------------------------------------------------------
(* The worlds of one host update in Interpolated mode *)

\* A host update has stepped two or more worlds in Interpolated mode.
InterpolatedUpdateOfWorlds ==
    /\ last.op = "step_simulation"
    /\ timestep_mode.kind = "Interpolated"
    /\ Cardinality(DOMAIN last.calls) >= 2

\* C36: in Interpolated mode with two or more worlds registered, one host update
\* advances every registered world by the same number of physics steps, whatever
\* the order in which the worlds are stepped.
C36_WorldsAdvanceAlike ==
    InterpolatedUpdateOfWorlds =>
       \A a, b \in DOMAIN last.calls : last.calls[a].steps = last.calls[b].steps

-----------------------------------------------------------------------------
(* The interpolation snapshot and the worlds *)

\* C37: the interpolation snapshot taken while stepping world W writes only to
\* bodies of world W: the TransformInterpolation of an entity is left as it was by
\* the stepper call of every world other than the entity's own.
C37_SnapshotWritesOwnWorld ==
    last.op = "step_simulation" =>
       \A w \in DOMAIN last.calls :
          \A e \in DOMAIN last.calls[w].interp_before :
             (e \in DOMAIN scene /\ scene[e].link # Some(w)) =>
                last.calls[w].interp_after[e] = last.calls[w].interp_before[e]

-----------------------------------------------------------------------------
(* collider_parent_for_world over the worlds of a scene *)

\* Scenes of entities with a collider each, with or without a body of their own,
\* untagged or tagged with world 1.
LookupScenes ==
    {sc \in [1..MaxSceneEntities ->
                {WithCollider(EntityComponents(parent, TransformIDENTITY, None, rigid_body,
                                               FALSE, None, link)) :
                    parent \in 0..(MaxSceneEntities - 1),
                    rigid_body \in {None, Some("Dynamic")},
                    link \in {None, Some(1)}}] :
        \A e \in DOMAIN sc : sc[e].parent \in {0, e - 1}}

InitLookup ==
    /\ \E sc \in LookupScenes : InitScene(sc, [w \in ChangeWorldIds |-> FALSE], {})
    /\ stage = "Update"
    /\ timestep_mode = DefaultTimestepMode

\* The host asks for the body entity a collider is attached to.
ColliderParentStage ==
    /\ \E e \in 1..MaxSceneEntities, world_id \in WorldIds :
          collider_parent_for_world(e, world_id)
    /\ UNCHANGED <<stage, authored>>

\* The host removes a world.
LookupRemoveWorldStage ==
    /\ \E world_id \in ChangeWorldIds : remove_world(world_id)
    /\ UNCHANGED <<stage, authored>>

NextLookupScene == ColliderParentStage \/ LookupRemoveWorldStage

SpecLookup == InitLookup /\ [][NextLookupScene]_vars

\* The entities of the bodies that a collider of the world is attached to.
ParentEntities(world) ==
    {world.bodies[world.colliders[h].parent[1]].user_data :
        h \in {c \in DOMAIN world.colliders :
                 /\ world.colliders[c].parent # None
                 /\ world.colliders[c].parent[1] \in DOMAIN world.bodies}}

\* C38: collider_parent_for_world(entity, W) returns only the entity of the rigid
\* body that the entity's collider is attached to in world W: never an entity
\* resolved from the body set of another world, whatever the order in which the
\* worlds are iterated.
C38_ParentOfOwnWorld ==
    (last.op = "collider_parent_for_world" /\ last.result.tag = "Some") =>
       /\ last.world_id \in DOMAIN worlds
       /\ last.result.value \in ParentEntities(worlds[last.world_id])

-----------------------------------------------------------------------------
(* The mass-modified events of removed colliders *)

\* The entities of the bodies that the collider of entity e is attached to, in the
\* worlds that have the collider.
AttachedTo(ws, e) ==
    {ws[w].bodies[ws[w].colliders[ws[w].entity2collider[e]].parent[1]].user_data :
        w \in {w \in DOMAIN ws :
                 /\ e \in DOMAIN ws[w].entity2collider
                 /\ ws[w].entity2collider[e] \in DOMAIN ws[w].colliders
                 /\ ws[w].colliders[ws[w].entity2collider[e]].parent # None
                 /\ ws[w].colliders[ws[w].entity2collider[e]].parent[1]
                       \in DOMAIN ws[w].bodies}}

\* C39: whenever a collider that is attached to a rigid body is removed from the
\* simulation, by removal of its handle component, by despawn of its entity or by
\* removal of its Collider component, sync_removals sends a mass-modified event
\* for the entity of the parent body, when that body stays.
C39_RemovedColliderReportsMass ==
    [][last'.op = "sync_removals" =>
          \A e \in removed.colliders \cup orphan_colliders(scene) :
             \A parent \in AttachedTo(worlds, e) \ (removed.bodies \cup orphan_bodies(scene)) :
                \E i \in DOMAIN last'.result.value : last'.result.value[i] = parent]_vars

-----------------------------------------------------------------------------
(* The index of the bodies at the end of a frame *)

\* Every entry e -> h of entity2body is a body of the world that stores e, no
\* two entities have the same body, and every key of the last-transform cache
\* is a body of the world.
BodyIndexSound(world) ==
    /\ \A e \in DOMAIN world.entity2body :
          /\ world.entity2body[e] \in DOMAIN world.bodies
          /\ world.bodies[world.entity2body[e]].user_data = e
    /\ \A e1, e2 \in DOMAIN world.entity2body :
          world.entity2body[e1] = world.entity2body[e2] => e1 = e2
    /\ DOMAIN world.last_body_transform_set \subseteq DOMAIN world.bodies

\* C40: at the end of every frame, in every world, each entry e -> h of
\* entity2body refers to a body that is present in that world's body set and whose
\* stored entity is e, no two entities map to the same body handle, and every key
\* of the last-transform cache is the handle of a body still present in that world.
C40_BodyIndexSoundAtFrameEnd ==
    stage = "Update" => \A w \in DOMAIN worlds : BodyIndexSound(worlds[w])

\* The same in every state of a frame.
BodyIndexSoundAlways == \A w \in DOMAIN worlds : BodyIndexSound(worlds[w])

\* A frame has ended in which a body was removed from one world and the entity
\* has a body in another.
C40_Witness ==
    /\ stage = "Update"
    /\ frames > 0
    /\ \E w \in DOMAIN worlds :
          worlds[w].inserted_bodies > Cardinality(DOMAIN worlds[w].bodies)
    /\ \E e \in DOMAIN scene : e \in DOMAIN worlds[1].entity2body

====
